---- MODULE Spec2Model ----
(***************************************************************************)
(* WhatsApp Flow endpoint of jorgemorenoo/zap: the booking conversation    *)
(* handlers (flow-endpoint-handlers) over an external calendar.            *)
(*                                                                         *)
(* Time is counted in minutes since 2026-01-01T00:00Z.  A calendar date    *)
(* 'yyyy-MM-dd' is the number of days since 2026-01-01 (a Thursday), so    *)
(* day 1 is '2026-01-02'.  An ISO-8601 instant string is the instant it    *)
(* denotes.  Text is TLA+ strings, built and cut as the code does.         *)
(***************************************************************************)
EXTENDS Integers, Sequences, FiniteSets, TLC

\* ------------------------------------------------------------------ bounds

\* Dates a client may submit: days 0..MaxDay.
MaxDay == 2
\* How many times the clock advances (by TickMinutes each time).
MaxTicks == 2
\* How many events the external calendar accepts from this endpoint.
MaxEvents == 2

\* ------------------------------------------------- values of request fields

\* selected_date missing (undefined or ''), and one that is no date at all
NoDate == -1
BadDate == -2
\* selected_slot missing, and one that new Date() cannot parse
NoSlot == -1
BadSlot == -2
\* new Date(x).getTime() of an Invalid Date
InvalidTime == -1

MinutesPerDay == 1440
\* The clock at the start: 2026-01-02 08:00 in America/Sao_Paulo (11:00Z).
StartNow == 2100
TickMinutes == 420

\* --------------------------------------------------------------- constants

WEEKDAY_KEYS == <<"mon", "tue", "wed", "thu", "fri", "sat", "sun">>

WEEKDAY_LABELS ==
    [mon |-> "Mon", tue |-> "Tue", wed |-> "Wed", thu |-> "Thu",
     fri |-> "Fri", sat |-> "Sat", sun |-> "Sun"]

WEEKDAY_FULL_LABELS ==
    [mon |-> "Segunda", tue |-> "Terca", wed |-> "Quarta", thu |-> "Quinta",
     fri |-> "Sexta", sat |-> "Sabado", sun |-> "Domingo"]

DEFAULT_SERVICES ==
    << [id |-> "consulta", title |-> "Consulta", durationMinutes |-> 30],
       [id |-> "visita", title |-> "Visita", durationMinutes |-> 60],
       [id |-> "suporte", title |-> "Suporte", durationMinutes |-> 30] >>

WorkDay(day, enabled, start, end) ==
    [day |-> day, enabled |-> enabled, start |-> start, end |-> end, slots |-> <<>>]

DEFAULT_CONFIG ==
    [timezone |-> "America/Sao_Paulo",
     slotDurationMinutes |-> 30,
     slotBufferMinutes |-> 10,
     workingHours |->
        << WorkDay("mon", TRUE, "09:00", "18:00"),
           WorkDay("tue", TRUE, "09:00", "18:00"),
           WorkDay("wed", TRUE, "09:00", "18:00"),
           WorkDay("thu", TRUE, "09:00", "18:00"),
           WorkDay("fri", TRUE, "09:00", "18:00"),
           WorkDay("sat", FALSE, "09:00", "13:00"),
           WorkDay("sun", FALSE, "09:00", "13:00") >>,
     minAdvanceHours |-> 4,
     maxAdvanceDays |-> 14,
     allowSimultaneous |-> FALSE]

\* ------------------------------------------------------------ text helpers

Trim_none(s) == s

\* String.prototype.trim over the space character
RECURSIVE Trim(_)
Trim(s) ==
    IF Len(s) > 0 /\ SubSeq(s, 1, 1) = " " THEN Trim(SubSeq(s, 2, Len(s)))
    ELSE IF Len(s) > 0 /\ SubSeq(s, Len(s), Len(s)) = " "
         THEN Trim(SubSeq(s, 1, Len(s) - 1))
         ELSE s

\* String(n).padStart(2, '0')
PadStart2(n) == IF n < 10 THEN "0" \o ToString(n) ELSE ToString(n)

Digits == "0123456789"

DigitValue(c) == CHOOSE d \in 0..9 : SubSeq(Digits, d + 1, d + 1) = c

\* Number(s) of a string of decimal digits
RECURSIVE ToNumber(_)
ToNumber(s) ==
    IF Len(s) = 0 THEN 0
    ELSE ToNumber(SubSeq(s, 1, Len(s) - 1)) * 10 + DigitValue(SubSeq(s, Len(s), Len(s)))

\* t.includes(s)
Includes(t, s) ==
    \E i \in 1..(Len(t) - Len(s) + 1) : SubSeq(t, i, i + Len(s) - 1) = s

\* ------------------------------------------------------------ time helpers

\* The UTC offset of a time zone, in minutes (none of these zones has had DST since 2019).
TzOffset(timeZone) ==
    CASE timeZone = "America/Sao_Paulo" -> -180
      [] timeZone = "UTC" -> 0
      [] timeZone = "Asia/Tokyo" -> 540

\* fromZonedTime(`${dateStr}T${HH:mm}:00`, timeZone): the instant of a wall-clock time
fromZonedTime(dateStr, minutes, timeZone) ==
    IF dateStr < 0 THEN InvalidTime
    ELSE dateStr * MinutesPerDay + minutes - TzOffset(timeZone)

\* formatInTimeZone(date, timeZone, 'yyyy-MM-dd')
formatDateKey(date, timeZone) == (date + TzOffset(timeZone)) \div MinutesPerDay

\* formatInTimeZone(date, timeZone, 'HH:mm')
formatTime(date, timeZone) ==
    LET m == (date + TzOffset(timeZone)) % MinutesPerDay
    IN  PadStart2(m \div 60) \o ":" \o PadStart2(m % 60)

\* formatInTimeZone(date, timeZone, 'dd/MM') and 'dd/MM/yyyy', dates of January 2026
formatDayMonth(date, timeZone) == PadStart2(formatDateKey(date, timeZone) + 1) \o "/01"

formatDayMonthYear(date, timeZone) == formatDayMonth(date, timeZone) \o "/2026"

\* Number(formatInTimeZone(date, timeZone, 'i')): ISO weekday, 1 = Monday
isoDayInZone(date, timeZone) == ((formatDateKey(date, timeZone) + 3) % 7) + 1

getWeekdayKey_utc(date, timeZone) == WEEKDAY_KEYS[isoDayInZone(date, "UTC")]

getWeekdayKey(date, timeZone) == WEEKDAY_KEYS[isoDayInZone(date, timeZone)]

getWeekdayLabel(date, timeZone) == WEEKDAY_FULL_LABELS[getWeekdayKey(date, timeZone)]

\* workingHours.find((d) => d.day === dayKey); <<>> stands for undefined
findWorkingDay(workingHours, dayKey) ==
    LET hits == {i \in 1..Len(workingHours) : workingHours[i].day = dayKey}
    IN  IF hits = {} THEN <<>>
        ELSE <<workingHours[CHOOSE i \in hits : \A j \in hits : i <= j]>>

workingDayEnabled_ignoreFlag(found) == found # <<>>

\* workingDay?.enabled, taken as a condition
workingDayEnabled(found) == found # <<>> /\ found[1].enabled

parseTimeToMinutes(value) ==
    LET colon == CHOOSE i \in 1..Len(value) : SubSeq(value, i, i) = ":"
        hh == ToNumber(SubSeq(value, 1, colon - 1))
        mm == ToNumber(SubSeq(value, colon + 1, Len(value)))
    IN  hh * 60 + mm

formatDateLabel(dateStr, timeZone) ==
    LET date == fromZonedTime(dateStr, 0, timeZone)
    IN  formatDayMonthYear(date, timeZone) \o " (" \o getWeekdayLabel(date, timeZone) \o ")"

formatDateChip(dateStr, timeZone) ==
    LET date == fromZonedTime(dateStr, 0, timeZone)
    IN  getWeekdayLabel(date, timeZone) \o " - " \o formatDayMonth(date, timeZone)

\* ------------------------------------------------------ booking configuration

\* What settingsDb.get('calendar_booking_config') holds: nothing, text that is
\* not JSON, or a JSON object overriding some fields of the defaults.
StoredOverride ==
    [timezone |-> "UTC",
     slotDurationMinutes |-> 60,
     minAdvanceHours |-> 0,
     workingHours |->
        << WorkDay("mon", TRUE, "09:00", "18:00"),
           WorkDay("tue", TRUE, "09:00", "18:00"),
           WorkDay("wed", TRUE, "09:00", "18:00"),
           WorkDay("thu", TRUE, "09:00", "18:00"),
           [day |-> "fri", enabled |-> TRUE, start |-> "09:00", end |-> "18:00",
            slots |-> << [start |-> "09:00", end |-> "10:30"],
                         [start |-> "14:00", end |-> "16:00"] >>],
           WorkDay("sat", FALSE, "09:00", "13:00"),
           WorkDay("sun", FALSE, "09:00", "13:00") >>]

StoredConfigs ==
    { [kind |-> "absent", value |-> <<>>],
      [kind |-> "json", value |-> StoredOverride] }

\* { ...DEFAULT_CONFIG, ...parsed }, or the defaults when nothing usable is stored
getCalendarBookingConfig(raw) ==
    IF raw.kind = "json" THEN raw.value @@ DEFAULT_CONFIG ELSE DEFAULT_CONFIG

\* ------------------------------------------------------- response envelopes

createSuccessResponse(screen, data) == [screen |-> screen, data |-> data]

createCloseResponse(data) == [data |-> data]

createErrorResponse(errorMessage) ==
    [data |-> [error |-> TRUE, error_message |-> errorMessage]]

\* The outcome of an async function: a value, or a thrown Error; with the
\* external calls it made and the events the calendar stored for it.
Returned(value, calls, created) ==
    [threw |-> FALSE, value |-> value, calls |-> calls, created |-> created]

Thrown(message, calls) ==
    [threw |-> TRUE, value |-> message, calls |-> calls, created |-> <<>>]

\* await settingsDb.get('calendar_booking_config'), as a call a handler makes
LoadConfig == << [op |-> "settingsDb.get", ok |-> TRUE] >>

\* await getCalendarConfig(), as a call a handler makes
ReadConnection == << [op |-> "getCalendarConfig", ok |-> TRUE] >>

\* ------------------------------------------------------------ date picker

getUTCDay_fromMonday(dateStr) == (dateStr + 3) % 7

\* new Date(Date.UTC(year, month - 1, day, 12)).getUTCDay(): 0 = Sunday
getUTCDay(dateStr) == (dateStr + 4) % 7

utcWeekdayKey(dateStr) ==
    LET jsDay == getUTCDay(dateStr)
        isoDay == IF jsDay = 0 THEN 7 ELSE jsDay
    IN  WEEKDAY_KEYS[isoDay]

pickerMaxDate_offByOne(todayStr, maxAdvanceDays) == todayStr + maxAdvanceDays - 1

\* new Date(Date.UTC(year, month - 1, day + maxAdvanceDays, 12)).toISOString().split('T')[0]
pickerMaxDate(todayStr, maxAdvanceDays) == todayStr + maxAdvanceDays

getCalendarPickerData(config, now) ==
    LET timeZone == config.timezone
        maxAdvanceDays == config.maxAdvanceDays
        todayStr == formatDateKey(now, timeZone)
        enabledDay(d) == d.enabled
        closed(dateStr) ==
            ~workingDayEnabled(findWorkingDay(config.workingHours, utcWeekdayKey(dateStr)))
        range == [i \in 1..(maxAdvanceDays + 1) |-> todayStr + i - 1]
        working == SelectSeq(config.workingHours, enabledDay)
    IN  [minDate |-> todayStr,
         maxDate |-> pickerMaxDate(todayStr, maxAdvanceDays),
         includeDays |-> [i \in 1..Len(working) |-> WEEKDAY_LABELS[working[i].day]],
         unavailableDates |-> SelectSeq(range, closed)]

\* ------------------------------------------------------- external calendar

\* listBusyTimes({calendarId, timeMin, timeMax}): what the calendar holds in the range
listBusyTimes(calendar, timeMin, timeMax) ==
    {item \in calendar : item.start < timeMax /\ item.end > timeMin}

\* Everything the external calendar holds: other people's entries and the
\* events this endpoint created.
CalendarItems(busyItems, events) ==
    busyItems \cup {[start |-> events[i].start, end |-> events[i].end] : i \in 1..Len(events)}

\* ---------------------------------------------------------- available slots

withinMinAdvance_strict(slotStartMs, minAllowedMs) == slotStartMs < minAllowedMs

\* slotStart.getTime() <= minAllowedTime.getTime()
withinMinAdvance(slotStartMs, minAllowedMs) == slotStartMs <= minAllowedMs

hasConflict_closed(slotStartMs, slotEndMs, busy) ==
    \E b \in busy : slotStartMs <= b.endMs /\ slotEndMs >= b.startMs

hasConflict_inverted(slotStartMs, slotEndMs, busy) ==
    ~\E item \in busy : slotStartMs < item.endMs /\ slotEndMs > item.startMs

\* busy.some((b) => slotStartMs < b.endMs && slotEndMs > b.startMs)
hasConflict(slotStartMs, slotEndMs, busy) ==
    \E b \in busy : slotStartMs < b.endMs /\ slotEndMs > b.startMs

RECURSIVE periodSlots_exclusiveEnd(_, _, _, _, _, _)
periodSlots_exclusiveEnd(currentMinutes, workEnd, dateStr, config, minAllowedTime, busy) ==
    LET slotDuration == config.slotDurationMinutes
        timeStr == PadStart2(currentMinutes \div 60) \o ":" \o PadStart2(currentMinutes % 60)
        slotStart == fromZonedTime(dateStr, currentMinutes, config.timezone)
        slotEnd == slotStart + slotDuration
        here == IF withinMinAdvance(slotStart, minAllowedTime) THEN <<>>
                ELSE IF hasConflict(slotStart, slotEnd, busy) THEN <<>>
                ELSE << [id |-> slotStart, title |-> timeStr] >>
    IN  IF currentMinutes + slotDuration < workEnd
        THEN here \o periodSlots_exclusiveEnd(currentMinutes + slotDuration, workEnd, dateStr,
                                 config, minAllowedTime, busy)
        ELSE <<>>

\* the while loop over one work period
RECURSIVE periodSlots(_, _, _, _, _, _)
periodSlots(currentMinutes, workEnd, dateStr, config, minAllowedTime, busy) ==
    LET slotDuration == config.slotDurationMinutes
        timeStr == PadStart2(currentMinutes \div 60) \o ":" \o PadStart2(currentMinutes % 60)
        slotStart == fromZonedTime(dateStr, currentMinutes, config.timezone)
        slotEnd == slotStart + slotDuration
        here == IF withinMinAdvance(slotStart, minAllowedTime) THEN <<>>
                ELSE IF hasConflict(slotStart, slotEnd, busy) THEN <<>>
                ELSE << [id |-> slotStart, title |-> timeStr] >>
    IN  IF currentMinutes + slotDuration <= workEnd
        THEN here \o periodSlots(currentMinutes + slotDuration, workEnd, dateStr,
                                 config, minAllowedTime, busy)
        ELSE <<>>

\* workingDay.slots when it has any, else the single {start, end} period
workPeriods(workingDay) ==
    IF Len(workingDay.slots) > 0 THEN workingDay.slots
    ELSE << [start |-> workingDay.start, end |-> workingDay.end] >>

\* the for loop over the work periods
RECURSIVE allPeriodSlots(_, _, _, _, _)
allPeriodSlots(periods, dateStr, config, minAllowedTime, busy) ==
    IF periods = <<>> THEN <<>>
    ELSE periodSlots(parseTimeToMinutes(Head(periods).start),
                     parseTimeToMinutes(Head(periods).end),
                     dateStr, config, minAllowedTime, busy)
         \o allPeriodSlots(Tail(periods), dateStr, config, minAllowedTime, busy)

\* getAvailableSlots: dayKey, the weekday of the start of the day in the zone
listingDayKey(dateStr, config) ==
    getWeekdayKey(fromZonedTime(dateStr, 0, config.timezone), config.timezone)

\* env: the world one request runs in (stored config, calendar, clock) and what
\* its external calls will do (busyOk, createOk, eventId).
getAvailableSlots(dateStr, env) ==
    LET config == getCalendarBookingConfig(env.stored)
        timeZone == config.timezone
        dayStart == fromZonedTime(dateStr, 0, timeZone)
        dayEnd == fromZonedTime(dateStr, MinutesPerDay - 1, timeZone)
        minAllowedTime == env.now + config.minAdvanceHours * 60
        busyItems == listBusyTimes(CalendarItems(env.busyItems, env.events), dayStart, dayEnd)
        busy == {[startMs |-> item.start - config.slotBufferMinutes,
                  endMs |-> item.end + config.slotBufferMinutes] : item \in busyItems}
        workingDay == findWorkingDay(config.workingHours, listingDayKey(dateStr, config))
        reads == LoadConfig \o ReadConnection
        call == reads \o << [op |-> "listBusyTimes", ok |-> env.busyOk,
                             timeMin |-> dayStart, timeMax |-> dayEnd] >>
    IN  IF ~env.connected THEN Thrown("Google Calendar nao conectado", reads)
        ELSE IF dayStart = InvalidTime THEN Thrown("Invalid time value", reads)
        ELSE IF ~env.busyOk THEN Thrown("Calendar request failed", call)
        ELSE IF ~workingDayEnabled(workingDay) THEN Returned(<<>>, call, <<>>)
        ELSE Returned(allPeriodSlots(workPeriods(workingDay[1]), dateStr, config,
                                     minAllowedTime, busy),
                      call, <<>>)

\* ------------------------------------------------------------ event creation

\* DEFAULT_SERVICES.find((s) => s.id === service)?.title || service
serviceNameOf(service) ==
    LET hits == {i \in 1..Len(DEFAULT_SERVICES) : DEFAULT_SERVICES[i].id = service}
    IN  IF hits # {} THEN DEFAULT_SERVICES[CHOOSE i \in hits : TRUE].title ELSE service

\* the description lines that survive filter(Boolean), joined by '\n'
eventDescription(params) ==
    "Cliente: " \o params.customerName \o "\nTelefone: " \o params.customerPhone
    \o (IF params.notes # "" THEN "\nObservacoes: " \o params.notes ELSE "")
    \o "\nAgendado via WhatsApp (SmartZap)"

bookingEventId_noFallback(event) == event.id

\* event.id || 'created'
bookingEventId(event) == IF event.id # "" THEN event.id ELSE "created"

createBookingEvent_rejectsPast(params, env) ==
    LET config == getCalendarBookingConfig(env.stored)
        slotStart == IF params.slotIso < 0 THEN InvalidTime ELSE params.slotIso
        slotEnd == slotStart + config.slotDurationMinutes
        payload == [summary |-> serviceNameOf(params.service) \o " - " \o params.customerName,
                    description |-> eventDescription(params),
                    start |-> slotStart, end |-> slotEnd, timeZone |-> config.timezone]
        event == [id |-> env.eventId]
        reads == LoadConfig \o ReadConnection
        call == reads \o << [op |-> "createEvent", ok |-> env.createOk, event |-> payload,
                             id |-> IF env.createOk THEN event.id ELSE ""] >>
    IN  IF ~env.connected THEN Thrown("Google Calendar nao conectado", reads)
        ELSE IF slotStart = InvalidTime THEN Thrown("Invalid time value", reads)
        ELSE IF slotStart <= env.now THEN Thrown("Horario indisponivel", reads)
        ELSE IF ~env.createOk THEN Thrown("Calendar request failed", call)
        ELSE Returned([eventId |-> bookingEventId(event)], call,
                      << [start |-> slotStart, end |-> slotEnd] >>)

createBookingEvent_rawSlot(params, env) ==
    LET config == getCalendarBookingConfig(env.stored)
        slotStart == IF params.slotIso < 0 THEN InvalidTime ELSE params.slotIso
        slotEnd == slotStart + config.slotDurationMinutes
        payload == [summary |-> serviceNameOf(params.service) \o " - " \o params.customerName,
                    description |-> eventDescription(params),
                    start |-> params.slotIso, end |-> slotEnd, timeZone |-> config.timezone]
        event == [id |-> env.eventId]
        reads == LoadConfig \o ReadConnection
        call == reads \o << [op |-> "createEvent", ok |-> env.createOk, event |-> payload,
                             id |-> IF env.createOk THEN event.id ELSE ""] >>
    IN  IF ~env.connected THEN Thrown("Google Calendar nao conectado", reads)
        ELSE IF ~env.createOk THEN Thrown("Calendar request failed", call)
        ELSE IF slotStart = InvalidTime THEN Thrown("Invalid time value", call)
        ELSE Returned([eventId |-> bookingEventId(event)], call,
                      << [start |-> slotStart, end |-> slotEnd] >>)

createBookingEvent_exclusive(params, env) ==
    LET config == getCalendarBookingConfig(env.stored)
        slotStart == IF params.slotIso < 0 THEN InvalidTime ELSE params.slotIso
        slotEnd == slotStart + config.slotDurationMinutes
        payload == [summary |-> serviceNameOf(params.service) \o " - " \o params.customerName,
                    description |-> eventDescription(params),
                    start |-> slotStart, end |-> slotEnd, timeZone |-> config.timezone]
        event == [id |-> env.eventId]
        reads == LoadConfig \o ReadConnection
        call == reads \o << [op |-> "createEvent", ok |-> env.createOk, event |-> payload,
                             id |-> IF env.createOk THEN event.id ELSE ""] >>
        taken == \E i \in 1..Len(env.events) : env.events[i].start = slotStart
    IN  IF ~env.connected THEN Thrown("Google Calendar nao conectado", reads)
        ELSE IF slotStart = InvalidTime THEN Thrown("Invalid time value", reads)
        ELSE IF ~config.allowSimultaneous /\ taken THEN Thrown("Horario indisponivel", reads)
        ELSE IF ~env.createOk THEN Thrown("Calendar request failed", call)
        ELSE Returned([eventId |-> bookingEventId(event)], call,
                      << [start |-> slotStart, end |-> slotEnd] >>)

createBookingEvent(params, env) ==
    LET config == getCalendarBookingConfig(env.stored)
        slotStart == IF params.slotIso < 0 THEN InvalidTime ELSE params.slotIso
        slotEnd == slotStart + config.slotDurationMinutes
        payload == [summary |-> serviceNameOf(params.service) \o " - " \o params.customerName,
                    description |-> eventDescription(params),
                    start |-> slotStart, end |-> slotEnd, timeZone |-> config.timezone]
        event == [id |-> env.eventId]
        reads == LoadConfig \o ReadConnection
        call == reads \o << [op |-> "createEvent", ok |-> env.createOk, event |-> payload,
                             id |-> IF env.createOk THEN event.id ELSE ""] >>
    IN  IF ~env.connected THEN Thrown("Google Calendar nao conectado", reads)
        ELSE IF slotStart = InvalidTime THEN Thrown("Invalid time value", reads)
        ELSE IF ~env.createOk THEN Thrown("Calendar request failed", call)
        ELSE Returned([eventId |-> bookingEventId(event)], call,
                      << [start |-> slotStart, end |-> slotEnd] >>)

\* --------------------------------------------------------------- handlers

\* the fields of the request data other than the error marker
DraftOf(data) == [k \in DOMAIN data \ {"error"} |-> data[k]]

handleInit(env) ==
    LET calendarPicker == getCalendarPickerData(getCalendarBookingConfig(env.stored), env.now)
    IN  Returned(
            createSuccessResponse("BOOKING_START",
                [services |-> [i \in 1..Len(DEFAULT_SERVICES) |->
                                  [id |-> DEFAULT_SERVICES[i].id,
                                   title |-> DEFAULT_SERVICES[i].title]],
                 min_date |-> calendarPicker.minDate,
                 max_date |-> calendarPicker.maxDate,
                 include_days |-> calendarPicker.includeDays,
                 unavailable_dates |-> calendarPicker.unavailableDates,
                 title |-> "Agendar Atendimento",
                 subtitle |-> "Escolha o tipo de atendimento e a data desejada",
                 error_message |-> "",
                 has_error |-> FALSE]),
            LoadConfig, <<>>)

noSlots_wrongTest(slots) == Len(slots) < 0

\* slots.length === 0
noSlots(slots) == Len(slots) = 0

dataExchangeBookingStart(data, env) ==
    LET selectedDate == data.selected_date
        found == getAvailableSlots(selectedDate, env)
        slots == found.value
        config == getCalendarBookingConfig(env.stored)
        calendarPicker == getCalendarPickerData(config, env.now)
    IN  IF selectedDate = NoDate
        THEN Returned(createErrorResponse("Selecione uma data"), <<>>, <<>>)
        ELSE IF found.threw THEN found
        ELSE IF noSlots(slots)
        THEN Returned(
                createSuccessResponse("BOOKING_START",
                    [min_date |-> calendarPicker.minDate,
                     max_date |-> calendarPicker.maxDate,
                     include_days |-> calendarPicker.includeDays,
                     unavailable_dates |-> calendarPicker.unavailableDates,
                     error_message |-> formatDateChip(selectedDate, config.timezone)
                                       \o " sem horarios. Escolha outra data.",
                     has_error |-> TRUE] @@ DraftOf(data)),
                found.calls \o LoadConfig \o LoadConfig, <<>>)
        ELSE Returned(
                createSuccessResponse("SELECT_TIME",
                    [selected_service |-> data.selected_service,
                     selected_date |-> selectedDate,
                     slots |-> slots,
                     title |-> "Escolha o Horario",
                     subtitle |-> "Horarios disponiveis para "
                                  \o formatDateLabel(selectedDate, config.timezone)]),
                found.calls \o LoadConfig, <<>>)

dataExchangeSelectTime_dropsDate(data) ==
    IF data.selected_slot = NoSlot
    THEN Returned(createErrorResponse("Selecione um horario"), <<>>, <<>>)
    ELSE Returned(
            createSuccessResponse("CUSTOMER_INFO",
                [selected_service |-> data.selected_service,
                 selected_date |-> NoDate,
                 selected_slot |-> data.selected_slot,
                 title |-> "Seus Dados",
                 subtitle |-> "Preencha seus dados para confirmar"]),
            <<>>, <<>>)

dataExchangeSelectTime(data) ==
    IF data.selected_slot = NoSlot
    THEN Returned(createErrorResponse("Selecione um horario"), <<>>, <<>>)
    ELSE Returned(
            createSuccessResponse("CUSTOMER_INFO",
                [selected_service |-> data.selected_service,
                 selected_date |-> data.selected_date,
                 selected_slot |-> data.selected_slot,
                 title |-> "Seus Dados",
                 subtitle |-> "Preencha seus dados para confirmar"]),
            <<>>, <<>>)

nameMissing_noTrim(customerName) == customerName = ""

\* !customerName?.trim()
nameMissing(customerName) == Trim(customerName) = ""

confirmationMessage_noTime(serviceName, formattedDate, formattedTime) ==
    "Agendamento confirmado!\n\n" \o serviceName \o "\n" \o formattedDate
    \o "\n\nVoce recebera um lembrete."

\* the confirmation text of the close payload
confirmationMessage(serviceName, formattedDate, formattedTime) ==
    "Agendamento confirmado!\n\n" \o serviceName \o "\n" \o formattedDate \o " as "
    \o formattedTime \o "\n\nVoce recebera um lembrete."

dataExchangeCustomerInfo(data, env) ==
    LET customerName == data.customer_name
        selectedSlot == data.selected_slot
        selectedService == data.selected_service
        result == createBookingEvent(
                      [slotIso |-> selectedSlot, service |-> selectedService,
                       customerName |-> Trim(customerName),
                       customerPhone |-> data.customer_phone, notes |-> data.notes], env)
        config == getCalendarBookingConfig(env.stored)
        formattedTime == formatTime(selectedSlot, config.timezone)
        dateKey == formatDateKey(selectedSlot, config.timezone)
        formattedDate == formatDateLabel(dateKey, config.timezone)
    IN  IF nameMissing(customerName)
        THEN Returned(createErrorResponse("Informe seu nome"), <<>>, <<>>)
        ELSE IF result.threw THEN result
        ELSE Returned(
                createCloseResponse(
                    [success |-> TRUE,
                     event_id |-> result.value.eventId,
                     selected_service |-> selectedService,
                     selected_date |-> dateKey,
                     selected_slot |-> selectedSlot,
                     customer_name |-> Trim(customerName),
                     customer_phone |-> data.customer_phone,
                     notes |-> data.notes,
                     message |-> confirmationMessage(serviceNameOf(selectedService),
                                                     formattedDate, formattedTime)]),
                result.calls \o LoadConfig, result.created)

catchDataExchange_rethrow(outcome) == outcome

\* catch (error) { return createErrorResponse(error.message) }
catchDataExchange(outcome) ==
    IF outcome.threw
    THEN Returned(createErrorResponse(outcome.value), outcome.calls, outcome.created)
    ELSE outcome

handleDataExchange(screen, data, env) ==
    catchDataExchange(
        CASE screen = "BOOKING_START" -> dataExchangeBookingStart(data, env)
          [] screen = "SELECT_TIME" -> dataExchangeSelectTime(data)
          [] screen = "CUSTOMER_INFO" -> dataExchangeCustomerInfo(data, env)
          [] OTHER -> Returned(createErrorResponse("Tela desconhecida: " \o screen),
                               <<>>, <<>>))

backToSelectTime_echo(data, env) ==
    LET selectedDate == data.selected_date
        found == getAvailableSlots(selectedDate, env)
        config == getCalendarBookingConfig(env.stored)
    IN  IF selectedDate = NoDate THEN handleInit(env)
        ELSE IF found.threw THEN found
        ELSE Returned(
                createSuccessResponse("SELECT_TIME",
                    DraftOf(data)
                    @@ [slots |-> found.value,
                        title |-> "Escolha o Horario",
                        subtitle |-> "Horarios disponiveis para "
                                     \o formatDateLabel(selectedDate, config.timezone)]),
                found.calls \o LoadConfig, <<>>)

\* handleBack, case 'CUSTOMER_INFO': { ...data, slots, title, subtitle }
backToSelectTime(data, env) ==
    LET selectedDate == data.selected_date
        found == getAvailableSlots(selectedDate, env)
        config == getCalendarBookingConfig(env.stored)
    IN  IF selectedDate = NoDate THEN handleInit(env)
        ELSE IF found.threw THEN found
        ELSE Returned(
                createSuccessResponse("SELECT_TIME",
                    [slots |-> found.value,
                     title |-> "Escolha o Horario",
                     subtitle |-> "Horarios disponiveis para "
                                  \o formatDateLabel(selectedDate, config.timezone)]
                    @@ DraftOf(data)),
                found.calls \o LoadConfig, <<>>)

handleBack_swapped(screen, data, env) ==
    CASE screen = "SELECT_TIME" -> backToSelectTime(data, env)
      [] screen = "CUSTOMER_INFO" -> handleInit(env)
      [] OTHER -> handleInit(env)

handleBack(screen, data, env) ==
    CASE screen = "SELECT_TIME" -> handleInit(env)
      [] screen = "CUSTOMER_INFO" -> backToSelectTime(data, env)
      [] OTHER -> handleInit(env)

\* 'error' in data
isErrorNotification(data) == data.error

handleFlowAction_ackOnExchange(request, env) ==
    CASE request.action = "INIT" -> handleInit(env)
      [] request.action = "data_exchange" ->
            IF isErrorNotification(request.data)
            THEN Returned([data |-> [acknowledged |-> TRUE]], <<>>, <<>>)
            ELSE handleDataExchange(request.screen, request.data, env)
      [] request.action = "BACK" -> handleBack(request.screen, request.data, env)
      [] OTHER -> Returned(createErrorResponse("Acao desconhecida: " \o request.action),
                           <<>>, <<>>)

handleFlowAction(request, env) ==
    IF isErrorNotification(request.data)
    THEN Returned([data |-> [acknowledged |-> TRUE]], <<>>, <<>>)
    ELSE CASE request.action = "INIT" -> handleInit(env)
           [] request.action = "data_exchange" ->
                handleDataExchange(request.screen, request.data, env)
           [] request.action = "BACK" -> handleBack(request.screen, request.data, env)
           [] OTHER -> Returned(createErrorResponse("Acao desconhecida: " \o request.action),
                                <<>>, <<>>)

\* --------------------------------------------------- the crypto envelope

\* The two halves of the n-th key pair generateKeyPair() gives, as PEM texts.
KeyPair(n) ==
    [privateKey |-> "private-" \o ToString(n), publicKey |-> "public-" \o ToString(n)]

\* No key stored: settingsDb.get(...) gives nothing.
NoKeys == [privateKey |-> "", publicKey |-> ""]

NoHttp == [status |-> 0]

\* The public half that matches a private key.
publicOf(privateKey) ==
    IF privateKey = KeyPair(1).privateKey THEN KeyPair(1).publicKey
    ELSE IF privateKey = KeyPair(2).privateKey THEN KeyPair(2).publicKey
    ELSE IF privateKey = KeyPair(3).privateKey THEN KeyPair(3).publicKey
    ELSE ""

\* buffer.toString('base64') and Buffer.from(text, 'base64')
toBase64(buffer) == [base64 |-> buffer]

fromBase64(text) == text.base64

\* JSON.stringify(value)
stringify(value) == [json |-> value]

\* A decrypted text that is no JSON document.
MalformedText == [text |-> "{action:"]

\* The result of a function that may throw.
Ok(value) == [threw |-> FALSE, value |-> value]

Fail(message) == [threw |-> TRUE, value |-> message]

\* JSON.parse(text)
parse(text) ==
    IF "json" \in DOMAIN text THEN Ok(text.json)
    ELSE Fail("Unexpected token a in JSON at position 1")

\* RSA-OAEP: the session key wrapped for the holder of a public key's pair.
publicEncrypt(publicKey, aesKey) == [oaep |-> aesKey, publicKey |-> publicKey]

\* crypto.privateDecrypt with OAEP padding: a key of another pair cannot unwrap.
privateDecrypt(privateKey, wrapped) ==
    IF privateKey # "" /\ wrapped.publicKey = publicOf(privateKey)
    THEN Ok(wrapped.oaep)
    ELSE Fail("error:02000079:rsa routines::oaep decoding error")

\* AES-128-GCM: ciphertext and tag, sealed under a key and an IV.
gcmEncrypt(plaintext, key, iv) ==
    [sealed |-> plaintext, key |-> key, iv |-> iv, intact |-> TRUE]

\* Opening needs the same key and IV and an untouched ciphertext and tag.
gcmDecrypt(box, key, iv) ==
    IF box.intact /\ box.key = key /\ box.iv = iv
    THEN Ok(box.sealed)
    ELSE Fail("Unsupported state or unable to authenticate data")

Flip_none(iv) == iv

\* every bit of every byte of the IV inverted: ~byte & 0xff
Flip(iv) == [i \in 1..Len(iv) |-> 255 - iv[i]]

\* decryptRequest(body, privateKey): unwrap the session key, open the payload
\* with it and the IV, parse the JSON.
decryptRequest(body, privateKey) ==
    LET unwrapped == privateDecrypt(privateKey, fromBase64(body.encrypted_aes_key))
        aesKeyBuffer == unwrapped.value
        initialVectorBuffer == fromBase64(body.initial_vector)
        opened == gcmDecrypt(fromBase64(body.encrypted_flow_data), aesKeyBuffer,
                             initialVectorBuffer)
        parsed == parse(opened.value)
    IN  IF unwrapped.threw THEN unwrapped
        ELSE IF opened.threw THEN opened
        ELSE IF parsed.threw THEN parsed
        ELSE Ok([decryptedBody |-> parsed.value, aesKeyBuffer |-> aesKeyBuffer,
                 initialVectorBuffer |-> initialVectorBuffer])

encryptResponse_sameIv(response, aesKeyBuffer, initialVectorBuffer) ==
    toBase64(gcmEncrypt(stringify(response), aesKeyBuffer, initialVectorBuffer))

\* encryptResponse(response, aesKeyBuffer, initialVectorBuffer): the JSON of the
\* response sealed under the same key and the flipped IV, as base64 text.
encryptResponse(response, aesKeyBuffer, initialVectorBuffer) ==
    toBase64(gcmEncrypt(stringify(response), aesKeyBuffer, Flip(initialVectorBuffer)))

\* ------------------------------------------------------------------ state

VARIABLES
    stored,     \* the stored calendar_booking_config setting
    connected,  \* whether getCalendarConfig() yields a calendarId
    busyItems,  \* entries of the external calendar made by others
    events,     \* events the external calendar created for this endpoint, in order
    now,        \* the clock
    req,        \* the decrypted request being answered
    resp,       \* what handleFlowAction gave for it: a payload, or [thrown |-> message]
    calls,      \* the external calendar calls made while answering it, with their outcomes
    scenario,   \* how far a client is along the booking path, and what held on the way
    keyStore,   \* the settings whatsapp_flow_private_key and whatsapp_flow_public_key
    http        \* the POST being answered: the body received and the HTTP response

vars == <<stored, connected, busyItems, events, now, req, resp, calls, scenario,
          keyStore, http>>

SaoPaulo == "America/Sao_Paulo"

\* An entry other people may put on the calendar: 2026-01-02 13:00-13:30, Sao Paulo time.
ExternalItems ==
    { [start |-> fromZonedTime(1, 780, SaoPaulo), end |-> fromZonedTime(1, 810, SaoPaulo)] }

Actions == {"INIT", "data_exchange", "BACK", "refresh"}

Screens == {"", "BOOKING_START", "SELECT_TIME", "CUSTOMER_INFO", "UNKNOWN"}

Names == {"", "   ", "Ana", " Ana "}

\* What the external calendar does with the call a request makes: it fails, or
\* it answers (createEvent with or without an id for the new event).
ExternalOutcomes ==
    { [ok |-> FALSE, eventId |-> ""],
      [ok |-> TRUE, eventId |-> ""],
      [ok |-> TRUE, eventId |-> "evt-" \o ToString(Len(events) + 1)] }

EmptyData ==
    [selected_date |-> NoDate, selected_service |-> "", selected_slot |-> NoSlot,
     customer_name |-> "", customer_phone |-> "", notes |-> "", error |-> FALSE]

\* A slot a client may hold from an earlier screen: 2026-01-02 14:00 in Sao Paulo.
StaleSlot == fromZonedTime(1, 840, SaoPaulo)

\* Data of a date submission, of a slot submission, of a contact submission and
\* of an error notification.
DateData ==
    { [EmptyData EXCEPT !.selected_date = d, !.selected_service = "consulta"] :
        d \in {NoDate, BadDate} \cup 0..MaxDay }
    \cup { [EmptyData EXCEPT !.selected_date = 1] }

SlotData ==
    { [EmptyData EXCEPT !.selected_date = 1, !.selected_service = "consulta",
                        !.selected_slot = t] : t \in {BadSlot, StaleSlot} }

InfoData ==
    { [EmptyData EXCEPT !.selected_date = d, !.selected_service = "consulta",
                        !.selected_slot = t, !.customer_name = n,
                        !.customer_phone = "5511999"] :
        d \in {1, 2}, t \in {NoSlot, BadSlot, StaleSlot}, n \in Names }
    \cup
    { [EmptyData EXCEPT !.selected_service = "massagem", !.selected_slot = StaleSlot,
                        !.customer_name = "Ana", !.notes = "tarde"] }

ErrorData ==
    { [EmptyData EXCEPT !.error = TRUE],
      [EmptyData EXCEPT !.error = TRUE, !.selected_date = 1, !.selected_slot = StaleSlot,
                        !.customer_name = "Ana"] }

\* Data of a BACK from CUSTOMER_INFO that still carries the slot list the
\* SELECT_TIME screen was rendered with.
EchoData ==
    { [slots |-> << [id |-> StaleSlot, title |-> "14:00"] >>]
      @@ [EmptyData EXCEPT !.selected_date = 1, !.selected_service = "visita",
                           !.selected_slot = StaleSlot, !.customer_name = "Ana"] }

RequestData == DateData \cup SlotData \cup InfoData \cup ErrorData \cup EchoData

Requests == [action : Actions, screen : Screens, data : RequestData]

NoRequest == [action |-> "none", screen |-> "", data |-> EmptyData]

NoResponse == [none |-> TRUE]

NoScenario == [step |-> 0, first |-> NoSlot, strict |-> FALSE]

\* result.screen ?? 'none'
ScreenOf(result) == IF "screen" \in DOMAIN result THEN result.screen ELSE "none"

TypeOK ==
    /\ stored \in StoredConfigs
    /\ connected \in BOOLEAN
    /\ busyItems \subseteq ExternalItems
    /\ Len(events) <= MaxEvents
    /\ now \in {StartNow + k * TickMinutes : k \in 0..MaxTicks}
    /\ req.action \in Actions \cup {"none", "undefined"}
    /\ req.screen \in Screens
    /\ req.data \in RequestData \cup {EmptyData}
    /\ keyStore \in {NoKeys} \cup {KeyPair(n) : n \in 1..3}
    /\ http.status \in {0, 200, 400, 421, 500}

Init ==
    /\ stored \in StoredConfigs
    /\ connected = TRUE
    /\ busyItems = {}
    /\ events = <<>>
    /\ now = StartNow
    /\ req = NoRequest
    /\ resp = NoResponse
    /\ calls = <<>>
    /\ scenario = NoScenario
    /\ keyStore = KeyPair(1)
    /\ http = NoHttp

EnvOf(outcome) ==
    [stored |-> stored, connected |-> connected, busyItems |-> busyItems,
     events |-> events, now |-> now,
     busyOk |-> outcome.ok, createOk |-> outcome.ok, eventId |-> outcome.eventId]

\* ---------------------------------------------------------------- actions

\* handleFlowAction answers the request; the calendar keeps what it created.
Answer(request, env) ==
    LET outcome == handleFlowAction(request, env)
    IN  /\ req = NoRequest
        /\ Len(events) + Len(outcome.created) <= MaxEvents
        /\ req' = request
        /\ resp' = IF outcome.threw THEN [thrown |-> outcome.value] ELSE outcome.value
        /\ calls' = outcome.calls
        /\ events' = events \o outcome.created
        /\ UNCHANGED <<stored, connected, busyItems, now, keyStore, http>>

\* Any request at all, with whatever the external calendar does.
HandleRequest ==
    \E request \in Requests, external \in ExternalOutcomes :
        /\ Answer(request, EnvOf(external))
        /\ UNCHANGED scenario

\* The response has gone back to the client; the endpoint keeps nothing of it.
Reply ==
    /\ req # NoRequest
    /\ req' = NoRequest
    /\ resp' = NoResponse
    /\ calls' = <<>>
    /\ UNCHANGED <<stored, connected, busyItems, events, now, scenario, keyStore, http>>

Tick ==
    /\ req = NoRequest
    /\ now < StartNow + MaxTicks * TickMinutes
    /\ now' = now + TickMinutes
    /\ UNCHANGED <<stored, connected, busyItems, events, req, resp, calls, scenario, keyStore, http>>

ConnectCalendar ==
    /\ req = NoRequest
    /\ ~connected
    /\ connected' = TRUE
    /\ UNCHANGED <<stored, busyItems, events, now, req, resp, calls, scenario, keyStore, http>>

DisconnectCalendar ==
    /\ req = NoRequest
    /\ connected
    /\ connected' = FALSE
    /\ UNCHANGED <<stored, busyItems, events, now, req, resp, calls, scenario, keyStore, http>>

OthersBook ==
    \E item \in ExternalItems \ busyItems :
        /\ req = NoRequest
        /\ busyItems' = busyItems \cup {item}
        /\ UNCHANGED <<stored, connected, events, now, req, resp, calls, scenario, keyStore, http>>

OthersCancel ==
    \E item \in busyItems :
        /\ req = NoRequest
        /\ busyItems' = busyItems \ {item}
        /\ UNCHANGED <<stored, connected, events, now, req, resp, calls, scenario, keyStore, http>>

Environment ==
    \/ Tick
    \/ ConnectCalendar
    \/ DisconnectCalendar
    \/ OthersBook
    \/ OthersCancel

Next ==
    \/ HandleRequest
    \/ Reply
    \/ Environment

Spec == Init /\ [][Next]_vars

\* ------------------------------------------------- the end-to-end scenario

\* The start instants the slot loop visits for a date, whatever the calendar holds.
CandidateStarts(dateStr, config) ==
    LET found == findWorkingDay(config.workingHours,
                                getWeekdayKey(fromZonedTime(dateStr, 0, config.timezone),
                                              config.timezone))
        periods == IF workingDayEnabled(found) THEN workPeriods(found[1]) ELSE <<>>
        duration == config.slotDurationMinutes
    IN  UNION { { fromZonedTime(dateStr, parseTimeToMinutes(periods[i].start) + k * duration,
                                config.timezone) :
                    k \in { j \in 0..(MinutesPerDay \div duration) :
                              parseTimeToMinutes(periods[i].start) + (j + 1) * duration
                                 <= parseTimeToMinutes(periods[i].end) } } :
                i \in 1..Len(periods) }

IsClose(result) ==
    "data" \in DOMAIN result /\ "screen" \notin DOMAIN result /\ "success" \in DOMAIN result.data

IsError(result) ==
    "data" \in DOMAIN result /\ "screen" \notin DOMAIN result /\ "error" \in DOMAIN result.data

IsAck(result) ==
    "data" \in DOMAIN result /\ "screen" \notin DOMAIN result
    /\ "acknowledged" \in DOMAIN result.data

\* The booking path of the end-to-end scenario, followed request by request:
\* step k says the last k requests were its first k requests (INIT, a date of
\* the picker's range whose weekday is enabled while the calendar is connected,
\* answers and holds nothing on that day, the first slot offered, a name that is not empty with the draft
\* echoed while the calendar accepts the event).  strict says moreover that, at
\* the date request, some slot of the date started later than now +
\* minAdvanceHours, and that the name was not blank.
ScenarioAfter(request, env, result) ==
    LET config == getCalendarBookingConfig(env.stored)
        data == request.data
        date == data.selected_date
        plain == ~isErrorNotification(data)
        exchange(screen) ==
            plain /\ request.action = "data_exchange" /\ request.screen = screen
        dayItems == listBusyTimes(CalendarItems(env.busyItems, env.events),
                                  fromZonedTime(date, 0, config.timezone),
                                  fromZonedTime(date, MinutesPerDay - 1, config.timezone))
        picker == getCalendarPickerData(config, env.now)
        offered == IF ScreenOf(result) = "SELECT_TIME" /\ Len(result.data.slots) > 0
                   THEN result.data.slots[1].id ELSE NoSlot
    IN  IF plain /\ request.action = "INIT"
        THEN [step |-> 1, first |-> NoSlot, strict |-> TRUE]
        ELSE IF /\ scenario.step = 1 /\ exchange("BOOKING_START")
                /\ date >= picker.minDate /\ date <= picker.maxDate
                /\ env.connected /\ env.busyOk /\ dayItems = {}
                /\ CandidateStarts(date, config) # {}
        THEN [step |-> 2, first |-> offered,
              strict |-> /\ scenario.strict
                         /\ \E t \in CandidateStarts(date, config) :
                                t > env.now + config.minAdvanceHours * 60]
        ELSE IF /\ scenario.step = 2 /\ exchange("SELECT_TIME")
                /\ scenario.first # NoSlot /\ data.selected_slot = scenario.first
        THEN [step |-> 3, first |-> scenario.first, strict |-> scenario.strict]
        ELSE IF /\ scenario.step = 3 /\ exchange("CUSTOMER_INFO")
                /\ data.customer_name # "" /\ data.selected_slot = scenario.first
                /\ env.connected /\ env.createOk
        THEN [step |-> 4, first |-> NoSlot,
              strict |-> scenario.strict /\ Trim(data.customer_name) # ""]
        ELSE NoScenario

\* What a client walking through the form sends: INIT, a date, the first slot
\* it was offered, its contact details with the draft echoed, or BACK.
ScenarioRequests ==
    { [action |-> "INIT", screen |-> "", data |-> EmptyData],
      [action |-> "BACK", screen |-> "SELECT_TIME", data |-> EmptyData] }
    \cup
    { [action |-> "data_exchange", screen |-> "BOOKING_START",
       data |-> [EmptyData EXCEPT !.selected_date = d, !.selected_service = "consulta"]] :
        d \in 0..MaxDay }
    \cup
    { [action |-> "data_exchange", screen |-> "SELECT_TIME",
       data |-> [EmptyData EXCEPT !.selected_date = 1, !.selected_service = "consulta",
                                  !.selected_slot = scenario.first]] }
    \cup
    { [action |-> "data_exchange", screen |-> "CUSTOMER_INFO",
       data |-> [EmptyData EXCEPT !.selected_date = 1, !.selected_service = "consulta",
                                  !.selected_slot = scenario.first,
                                  !.customer_name = n]] : n \in Names }

ClientRequest ==
    \E request \in ScenarioRequests, external \in ExternalOutcomes :
        /\ Answer(request, EnvOf(external))
        /\ scenario' = ScenarioAfter(request, EnvOf(external), resp')

NextE2E ==
    \/ ClientRequest
    \/ Reply
    \/ Environment

SpecE2E == Init /\ [][NextE2E]_vars

\* C1 as stated: along INIT -> BOOKING_START(date on an enabled weekday, calendar
\* connected and free) -> SELECT_TIME(first slot returned) -> CUSTOMER_INFO(name
\* not empty), the responses are BOOKING_START, SELECT_TIME with at least one
\* slot, CUSTOMER_INFO, and a close payload without screen and with an event_id.
C1_AsStated ==
    req # NoRequest =>
        /\ scenario.step = 1 => ScreenOf(resp) = "BOOKING_START"
        /\ scenario.step = 2 => ScreenOf(resp) = "SELECT_TIME" /\ Len(resp.data.slots) >= 1
        /\ scenario.step = 3 => ScreenOf(resp) = "CUSTOMER_INFO"
        /\ scenario.step = 4 => IsClose(resp) /\ resp.data.event_id # ""

\* C1 (amended): the same path, when moreover some slot of the selected date
\* starts later than now + minAdvanceHours and the customer name is not blank,
\* yields BOOKING_START, SELECT_TIME with at least one slot, CUSTOMER_INFO and a
\* close payload (no screen) whose event_id is not empty.
C1_EndToEnd ==
    (req # NoRequest /\ scenario.strict) =>
        /\ scenario.step = 1 => ScreenOf(resp) = "BOOKING_START"
        /\ scenario.step = 2 => ScreenOf(resp) = "SELECT_TIME" /\ Len(resp.data.slots) >= 1
        /\ scenario.step = 3 => ScreenOf(resp) = "CUSTOMER_INFO"
        /\ scenario.step = 4 => IsClose(resp) /\ resp.data.event_id # ""

C1_Witness ==
    /\ scenario.step = 4 /\ scenario.strict
    /\ IsClose(resp) /\ Len(events) = 1
    /\ resp.data.event_id = "created"


\* ------------------------------------------- properties of single requests

Config == getCalendarBookingConfig(stored)

\* The request is not an error notification.
Plain == req # NoRequest /\ ~req.data.error

Exchange(screen) == Plain /\ req.action = "data_exchange" /\ req.screen = screen

\* The world the request being answered ran in: a request that reads the
\* calendar creates nothing, so the state still holds what it saw.
RequestEnv ==
    [stored |-> stored, connected |-> connected, busyItems |-> busyItems,
     events |-> events, now |-> now,
     busyOk |-> \A i \in 1..Len(calls) : calls[i].ok,
     createOk |-> \A i \in 1..Len(calls) : calls[i].ok, eventId |-> ""]

\* The weekday of a calendar date, counted from Thursday 2026-01-01.
WeekdayOfDate(dateStr) == WEEKDAY_KEYS[((dateStr + 3) % 7) + 1]

EnabledWeekdays == {Config.workingHours[i].day :
                      i \in {j \in 1..Len(Config.workingHours) : Config.workingHours[j].enabled}}

\* The date metadata of a BOOKING_START payload is that of the clock and the
\* configuration: today in the configured zone, today + maxAdvanceDays, the
\* enabled weekdays, and the dates of the range on a weekday that is not enabled.
FreshPickerData(data) ==
    /\ data.min_date = (now + TzOffset(Config.timezone)) \div MinutesPerDay
    /\ data.max_date = data.min_date + Config.maxAdvanceDays
    /\ {data.include_days[i] : i \in 1..Len(data.include_days)}
          = {WEEKDAY_LABELS[d] : d \in EnabledWeekdays}
    /\ {data.unavailable_dates[i] : i \in 1..Len(data.unavailable_dates)}
          = {d \in data.min_date..data.max_date : WeekdayOfDate(d) \notin EnabledWeekdays}

CreateCalls == {i \in 1..Len(calls) : calls[i].op = "createEvent"}

Blank(text) == \A i \in 1..Len(text) : SubSeq(text, i, i) = " "

C3_DateSubmission ==
    (Exchange("BOOKING_START") /\ req.data.selected_date # NoDate) =>
        LET listed == getAvailableSlots(req.data.selected_date, RequestEnv)
            some == ~listed.threw /\ Len(listed.value) >= 1
            none == ~listed.threw /\ Len(listed.value) = 0
        IN  /\ (ScreenOf(resp) = "SELECT_TIME") <=> some
            /\ some => /\ resp.data.selected_service = req.data.selected_service
                       /\ resp.data.selected_date = req.data.selected_date
                       /\ resp.data.slots = listed.value
            /\ none => /\ ScreenOf(resp) = "BOOKING_START"
                       /\ resp.data.has_error = TRUE
                       /\ resp.data.error_message # ""
                       /\ FreshPickerData(resp.data)

C3_Witness ==
    /\ Exchange("BOOKING_START") /\ req.data.selected_date = 1
    /\ WeekdayOfDate(1) \in EnabledWeekdays
    /\ ScreenOf(resp) = "BOOKING_START" /\ resp.data.has_error
    /\ now > StartNow

C5_SlotSubmission ==
    (Exchange("SELECT_TIME") /\ req.data.selected_slot # NoSlot) =>
        /\ ScreenOf(resp) = "CUSTOMER_INFO"
        /\ resp.data.selected_service = req.data.selected_service
        /\ resp.data.selected_date = req.data.selected_date
        /\ resp.data.selected_slot = req.data.selected_slot
        /\ calls = <<>>

C5_Witness ==
    /\ Exchange("SELECT_TIME") /\ req.data.selected_slot = StaleSlot
    /\ ~connected
    /\ ScreenOf(resp) = "CUSTOMER_INFO" /\ resp.data.selected_date = 1

\* C6: data_exchange on CUSTOMER_INFO with a name that is not blank and a
\* createEvent that succeeds calls createEvent exactly once and gives a close
\* payload (no screen) with the identifier of the created event and a message
\* made of the service name, the formatted date and the slot time.
C6_Booking ==
    (/\ Exchange("CUSTOMER_INFO") /\ ~Blank(req.data.customer_name)
     /\ \E i \in CreateCalls : calls[i].ok) =>
        /\ Cardinality(CreateCalls) = 1
        /\ IsClose(resp)
        /\ \A i \in CreateCalls : calls[i].id # "" => resp.data.event_id = calls[i].id
        /\ resp.data.event_id # ""
        /\ Includes(resp.data.message, serviceNameOf(req.data.selected_service))
        /\ Includes(resp.data.message,
                    formatDayMonthYear(req.data.selected_slot, Config.timezone))
        /\ Includes(resp.data.message,
                    " as " \o formatTime(req.data.selected_slot, Config.timezone))

C6_Witness ==
    /\ Exchange("CUSTOMER_INFO") /\ req.data.selected_service = "massagem"
    /\ IsClose(resp) /\ resp.data.event_id = "evt-1"
    /\ Len(events) = 1

C9_CreationFailure ==
    (/\ Exchange("CUSTOMER_INFO") /\ ~Blank(req.data.customer_name)
     /\ (~connected \/ \E i \in CreateCalls : ~calls[i].ok)) =>
        /\ IsError(resp)
        /\ ~IsClose(resp)
        /\ resp.data.error_message # ""
        /\ Cardinality(CreateCalls) <= 1
        /\ ~connected => CreateCalls = {}

C9_Witness ==
    /\ Exchange("CUSTOMER_INFO") /\ connected
    /\ Cardinality(CreateCalls) = 1 /\ \E i \in CreateCalls : ~calls[i].ok
    /\ IsError(resp) /\ events = <<>>

DraftFields == DOMAIN req.data \ {"error", "slots"}

\* C11 as stated: BACK from CUSTOMER_INFO with a selected_date gives SELECT_TIME
\* with the slots listed anew for that date and the rest of the draft kept.
C11_AsStated ==
    (/\ Plain /\ req.action = "BACK" /\ req.screen = "CUSTOMER_INFO"
     /\ req.data.selected_date >= 0) =>
        /\ ScreenOf(resp) = "SELECT_TIME"
        /\ \A k \in DraftFields : resp.data[k] = req.data[k]

\* C11 (amended): BACK from CUSTOMER_INFO with a selected_date for which the
\* slot listing succeeds (calendar connected, busy-interval read answered, the
\* date a date) gives SELECT_TIME with the slots listed anew for that date,
\* not those the request carries, and the rest of the draft kept.
C11_BackFromCustomerInfo ==
    (/\ Plain /\ req.action = "BACK" /\ req.screen = "CUSTOMER_INFO"
     /\ req.data.selected_date # NoDate) =>
        LET listed == getAvailableSlots(req.data.selected_date, RequestEnv)
        IN  ~listed.threw =>
                /\ ScreenOf(resp) = "SELECT_TIME"
                /\ resp.data.slots = listed.value
                /\ \A i \in 1..Len(resp.data.slots) :
                      resp.data.slots[i].id > now + Config.minAdvanceHours * 60
                /\ \A k \in DraftFields : resp.data[k] = req.data[k]

C11_Witness ==
    /\ Plain /\ req.action = "BACK" /\ req.screen = "CUSTOMER_INFO"
    /\ "slots" \in DOMAIN req.data
    /\ ScreenOf(resp) = "SELECT_TIME"
    /\ Len(resp.data.slots) >= 1
    /\ resp.data.slots # req.data.slots
    /\ resp.data.customer_name = "Ana"

\* The request names an action handleFlowAction has no case for, or, under
\* data_exchange or BACK, a screen that is none of the three screens.
UnknownTransition ==
    /\ Plain
    /\ \/ req.action \notin {"INIT", "data_exchange", "BACK"}
       \/ /\ req.action \in {"data_exchange", "BACK"}
          /\ req.screen \notin {"BOOKING_START", "SELECT_TIME", "CUSTOMER_INFO"}

\* C12: every unrecognized action, and every unrecognized screen under
\* data_exchange and under BACK, is answered with an error response: no screen
\* is rendered and nothing is read from or written to the calendar.
C12_AsStated ==
    UnknownTransition =>
        /\ IsError(resp)
        /\ ScreenOf(resp) = "none"
        /\ calls = <<>>

\* C13: when the request data is an error notification, whatever the action
\* and the screen, the response is the acknowledgement {acknowledged: true} and
\* nothing else happens: no settings read, no calendar read, no event
\* created, no screen named.
C13_ErrorNotification ==
    (req # NoRequest /\ req.data.error) =>
        /\ resp = [data |-> [acknowledged |-> TRUE]]
        /\ ScreenOf(resp) = "none"
        /\ calls = <<>>

C13_Witness ==
    /\ req.action = "data_exchange" /\ req.screen = "CUSTOMER_INFO"
    /\ req.data.error /\ req.data.customer_name = "Ana"
    /\ req.data.selected_slot = StaleSlot
    /\ connected
    /\ IsAck(resp) /\ events = <<>>

\* What the caller of handleFlowAction gets: the result, or the Error thrown.
ResponseOf(outcome) == IF outcome.threw THEN [thrown |-> outcome.value] ELSE outcome.value

\* ------------------------------------------------------------ the endpoint

\* A field of the POST body that is missing.
Absent == [absent |-> TRUE]

\* NextResponse.json(body, {status})
jsonResponse(status, body) ==
    [status |-> status, contentType |-> "application/json", body |-> body]

\* new NextResponse(text, {status: 200, headers: {'Content-Type': 'text/plain'}})
textResponse(text) == [status |-> 200, contentType |-> "text/plain", body |-> text]

isOaepError_upperOnly(errorMessage) == Includes(errorMessage, "OAEP")

\* errorMessage.includes('oaep') || errorMessage.includes('OAEP')
isOaepError(errorMessage) == Includes(errorMessage, "oaep") \/ Includes(errorMessage, "OAEP")

decryptFailureBody_sameHint(errorMessage) ==
    [error |-> "Falha na descriptografia",
     hint |-> "Chave publica no Flow da Meta nao corresponde a chave privada do servidor. Verifique a configuracao das chaves."]

\* the body of the 421 response: JSON leaves out a hint that is undefined
decryptFailureBody(errorMessage) ==
    IF isOaepError(errorMessage)
    THEN [error |-> "Falha na descriptografia",
          hint |-> "Chave publica no Flow da Meta nao corresponde a chave privada do servidor. Verifique a configuracao das chaves."]
    ELSE [error |-> "Falha na descriptografia"]

pingResponse == [data |-> [status |-> "active"]]

\* What one POST does: the HTTP response, the keys stored afterwards, whether
\* the public key reached the peer platform, what the state machine was asked
\* and answered (dispatched = FALSE when it was not called), and the values
\* written to the log, each with the line that writes it.
PostResult(response, keys, sync, dispatched, request, outcome, logged) ==
    [http |-> response, keyStore |-> keys, sync |-> sync, dispatched |-> dispatched,
     request |-> request, outcome |-> outcome, logged |-> logged]

NotDispatched == Returned(<<>>, <<>>, <<>>)

\* The JSON value null, and a property read from an object that lacks it.
Null == [null |-> TRUE]

Undefined == "undefined"

\* flowRequest.action on null
NullActionMessage == "Cannot read properties of null (reading 'action')"

\* const { action, screen, data } = request, then screen || '' and data || {}
destructure(request) ==
    [action |-> IF "action" \in DOMAIN request THEN request.action ELSE Undefined,
     screen |-> IF "screen" \in DOMAIN request THEN request.screen ELSE "",
     data |-> IF "data" \in DOMAIN request THEN request.data ELSE EmptyData]

respondDecrypted_pingInClear(decrypted, env, keys, sync) ==
    LET flowRequest == destructure(decrypted.decryptedBody)
        outcome == handleFlowAction(flowRequest, env)
        response == IF outcome.threw THEN createErrorResponse(outcome.value)
                    ELSE outcome.value
        received == [line |-> 117, action |-> flowRequest.action,
                     screen |-> flowRequest.screen, data |-> stringify(flowRequest.data)]
        handled == IF outcome.threw THEN [line |-> 144, error |-> outcome.value]
                   ELSE [line |-> 142, text |-> stringify(outcome.value)]
    IN  IF decrypted.decryptedBody = Null
        THEN PostResult(jsonResponse(500, [error |-> NullActionMessage]),
                        keys, sync, FALSE, <<>>, NotDispatched,
                        << [line |-> 163, error |-> NullActionMessage] >>)
        ELSE IF flowRequest.action = "ping"
        THEN PostResult(jsonResponse(200, pingResponse),
                        keys, sync, FALSE, <<>>, NotDispatched, <<received>>)
        ELSE PostResult(textResponse(encryptResponse(response,
                                                     decrypted.aesKeyBuffer,
                                                     decrypted.initialVectorBuffer)),
                        keys, sync, TRUE, flowRequest, outcome, <<received, handled>>)

respondDecrypted_rethrows(decrypted, env, keys, sync) ==
    LET flowRequest == destructure(decrypted.decryptedBody)
        outcome == handleFlowAction(flowRequest, env)
        received == [line |-> 117, action |-> flowRequest.action,
                     screen |-> flowRequest.screen, data |-> stringify(flowRequest.data)]
    IN  IF decrypted.decryptedBody = Null
        THEN PostResult(jsonResponse(500, [error |-> NullActionMessage]),
                        keys, sync, FALSE, <<>>, NotDispatched,
                        << [line |-> 163, error |-> NullActionMessage] >>)
        ELSE IF flowRequest.action = "ping"
        THEN PostResult(textResponse(encryptResponse(pingResponse,
                                                     decrypted.aesKeyBuffer,
                                                     decrypted.initialVectorBuffer)),
                        keys, sync, FALSE, <<>>, NotDispatched, <<received>>)
        ELSE IF outcome.threw
        THEN PostResult(jsonResponse(500, [error |-> outcome.value]),
                        keys, sync, TRUE, flowRequest, outcome,
                        << received, [line |-> 163, error |-> outcome.value] >>)
        ELSE PostResult(textResponse(encryptResponse(outcome.value,
                                                     decrypted.aesKeyBuffer,
                                                     decrypted.initialVectorBuffer)),
                        keys, sync, TRUE, flowRequest, outcome,
                        << received, [line |-> 142, text |-> stringify(outcome.value)] >>)

\* POST once the body is decrypted: the ping short-circuit, or the state
\* machine and the encrypted response; the outer catch when the body is null.
respondDecrypted(decrypted, env, keys, sync) ==
    LET flowRequest == destructure(decrypted.decryptedBody)
        outcome == handleFlowAction(flowRequest, env)
        response == IF outcome.threw THEN createErrorResponse(outcome.value)
                    ELSE outcome.value
        received == [line |-> 117, action |-> flowRequest.action,
                     screen |-> flowRequest.screen, data |-> stringify(flowRequest.data)]
        handled == IF outcome.threw THEN [line |-> 144, error |-> outcome.value]
                   ELSE [line |-> 142, text |-> stringify(outcome.value)]
    IN  IF decrypted.decryptedBody = Null
        THEN PostResult(jsonResponse(500, [error |-> NullActionMessage]),
                        keys, sync, FALSE, <<>>, NotDispatched,
                        << [line |-> 163, error |-> NullActionMessage] >>)
        ELSE IF flowRequest.action = "ping"
        THEN PostResult(textResponse(encryptResponse(pingResponse,
                                                     decrypted.aesKeyBuffer,
                                                     decrypted.initialVectorBuffer)),
                        keys, sync, FALSE, <<>>, NotDispatched, <<received>>)
        ELSE PostResult(textResponse(encryptResponse(response,
                                                     decrypted.aesKeyBuffer,
                                                     decrypted.initialVectorBuffer)),
                        keys, sync, TRUE, flowRequest, outcome, <<received, handled>>)

\* POST once the private key is known: decryptRequest, and 421 when it throws.
respondKeyed(body, env, keys, sync) ==
    CHOOSE result \in
        { IF decrypted.threw
          THEN PostResult(jsonResponse(421, decryptFailureBody(decrypted.value)),
                          keys, sync, FALSE, <<>>, NotDispatched,
                          << [line |-> 91, error |-> decrypted.value] >>)
          ELSE respondDecrypted(decrypted.value, env, keys, sync) :
            decrypted \in {decryptRequest(body, keys.privateKey)} } : TRUE

POST_lookupFirst(body, env, keys, generated, sync) ==
    LET missing == \/ body.encrypted_flow_data = Absent
                   \/ body.encrypted_aes_key = Absent
                   \/ body.initial_vector = Absent
        bootstrap == keys.privateKey = ""
    IN  IF missing
        THEN PostResult(jsonResponse(400, [error |-> "Campos obrigatorios ausentes"]),
                        IF bootstrap THEN generated ELSE keys,
                        IF bootstrap THEN sync ELSE "none",
                        FALSE, <<>>, NotDispatched, <<>>)
        ELSE IF bootstrap
        THEN respondKeyed(body, env, generated, sync)
        ELSE respondKeyed(body, env, keys, "none")

POST_syncBlocks(body, env, keys, generated, sync) ==
    LET missing == \/ body.encrypted_flow_data = Absent
                   \/ body.encrypted_aes_key = Absent
                   \/ body.initial_vector = Absent
        bootstrap == keys.privateKey = ""
    IN  IF missing
        THEN PostResult(jsonResponse(400, [error |-> "Campos obrigatorios ausentes"]),
                        keys, "none", FALSE, <<>>, NotDispatched, <<>>)
        ELSE IF bootstrap /\ sync = "failed"
        THEN PostResult(jsonResponse(500, [error |-> "Erro interno"]),
                        generated, sync, FALSE, <<>>, NotDispatched, <<>>)
        ELSE IF bootstrap
        THEN respondKeyed(body, env, generated, sync)
        ELSE respondKeyed(body, env, keys, "none")

\* export async function POST(request)
POST(body, env, keys, generated, sync) ==
    LET missing == \/ body.encrypted_flow_data = Absent
                   \/ body.encrypted_aes_key = Absent
                   \/ body.initial_vector = Absent
        bootstrap == keys.privateKey = ""
    IN  IF missing
        THEN PostResult(jsonResponse(400, [error |-> "Campos obrigatorios ausentes"]),
                        keys, "none", FALSE, <<>>, NotDispatched, <<>>)
        ELSE IF bootstrap
        THEN respondKeyed(body, env, generated, sync)
        ELSE respondKeyed(body, env, keys, "none")

\* Initialization vectors and session keys a client may draw: 16 bytes each.
IVs ==
    { [i \in 1..16 |-> 0], [i \in 1..16 |-> 255], [i \in 1..16 |-> (37 * i) % 256] }

SessionKeys == { [i \in 1..16 |-> i], [i \in 1..16 |-> 255 - i] }

\* The public keys the peer platform may hold for this endpoint: that of the
\* pair stored from the start, and that of a pair the endpoint generates.
ClientKeys == {KeyPair(1).publicKey, KeyPair(3).publicKey}

\* The health-check request.
Ping == [action |-> "ping", screen |-> "", data |-> EmptyData]

\* Requests the peer platform sends through the endpoint.
EndpointRequests ==
    { Ping,
      [action |-> "INIT", screen |-> "", data |-> EmptyData],
      [action |-> "INIT", screen |-> "", data |-> [EmptyData EXCEPT !.error = TRUE]],
      [action |-> "refresh", screen |-> "BOOKING_START", data |-> EmptyData],
      [action |-> "data_exchange", screen |-> "BOOKING_START",
       data |-> [EmptyData EXCEPT !.selected_date = 1, !.selected_service = "consulta"]],
      [action |-> "data_exchange", screen |-> "CUSTOMER_INFO",
       data |-> [EmptyData EXCEPT !.selected_date = 1, !.selected_service = "consulta",
                                  !.selected_slot = StaleSlot, !.customer_name = "Ana",
                                  !.customer_phone = "5511999"]],
      [action |-> "BACK", screen |-> "CUSTOMER_INFO",
       data |-> [EmptyData EXCEPT !.selected_date = 1, !.selected_service = "consulta",
                                  !.selected_slot = StaleSlot]] }

\* Decrypted bodies that are JSON and no request: null, and objects without
\* an action, one of them carrying an error key in its data.
Schemaless ==
    { Null, [data |-> EmptyData], [data |-> [EmptyData EXCEPT !.error = TRUE]] }

Plaintexts ==
    {stringify(value) : value \in EndpointRequests \cup Schemaless} \cup {MalformedText}

\* The wire request a client builds, and what tampering on the way leaves of it.
Envelope(plaintext, publicKey, aesKey, iv, intact) ==
    [encrypted_flow_data |->
        toBase64([gcmEncrypt(plaintext, aesKey, iv) EXCEPT !.intact = intact]),
     encrypted_aes_key |-> toBase64(publicEncrypt(publicKey, aesKey)),
     initial_vector |-> toBase64(iv)]

\* Every plaintext arrives under either public key; the health check and the
\* first request of a conversation also arrive under every session key and
\* IV, whole and tampered with.
Envelopes ==
    { Envelope(plaintext, publicKey, [i \in 1..16 |-> i], [i \in 1..16 |-> (37 * i) % 256],
               TRUE) :
        plaintext \in Plaintexts, publicKey \in ClientKeys }
    \cup { Envelope(stringify(request), publicKey, aesKey, iv, intact) :
              request \in {Ping, [action |-> "INIT", screen |-> "", data |-> EmptyData]},
              publicKey \in ClientKeys, aesKey \in SessionKeys, iv \in IVs,
              intact \in BOOLEAN }

Bodies ==
    Envelopes
    \cup { [body EXCEPT ![field] = Absent] :
             body \in { Envelope(stringify(Ping), KeyPair(1).publicKey,
                                 [i \in 1..16 |-> i], [i \in 1..16 |-> 0], TRUE) },
             field \in {"encrypted_flow_data", "encrypted_aes_key", "initial_vector"} }

SyncOutcomes == {"synced", "failed", "no_credentials"}

InitEndpoint ==
    /\ stored = [kind |-> "absent", value |-> <<>>]
    /\ connected = TRUE
    /\ busyItems = {}
    /\ events = <<>>
    /\ now = StartNow
    /\ req = NoRequest
    /\ resp = NoResponse
    /\ calls = <<>>
    /\ scenario = NoScenario
    /\ keyStore \in {NoKeys, KeyPair(1)}
    /\ http = NoHttp

\* The peer platform can seal a session key only under a public key that
\* exists: the generated pair's only once the endpoint has generated it.
HeldByPeer(body) ==
    body \in Envelopes =>
        (fromBase64(body.encrypted_aes_key).publicKey = KeyPair(3).publicKey
            => keyStore = KeyPair(3))

\* One POST, from the body received to the response returned.
Post ==
    \E body \in Bodies, external \in ExternalOutcomes,
       sync \in IF keyStore.privateKey = "" THEN SyncOutcomes ELSE {"none"} :
        \E result \in {POST(body, EnvOf(external), keyStore, KeyPair(3), sync)} :
            /\ http = NoHttp
            /\ HeldByPeer(body)
            /\ Len(events) + Len(result.outcome.created) <= MaxEvents
            /\ http' = [received |-> body, sync |-> result.sync, logged |-> result.logged,
                        external |-> IF result.dispatched THEN external
                                     ELSE [ok |-> TRUE, eventId |-> ""]]
                       @@ result.http
            /\ keyStore' = result.keyStore
            /\ req' = IF result.dispatched THEN result.request ELSE NoRequest
            /\ resp' = IF result.dispatched THEN ResponseOf(result.outcome) ELSE NoResponse
            /\ calls' = result.outcome.calls
            /\ events' = events \o result.outcome.created
            /\ UNCHANGED <<stored, connected, busyItems, now, scenario>>

\* The request of the liveness probe: no body.
GetRequest == [method |-> "GET"]

GET_alwaysReady(privateKey) ==
    jsonResponse(200, [status |-> "ready",
                       message |-> "Flow endpoint configurado e pronto"])

\* export async function GET(), given what settingsDb.get(PRIVATE_KEY_SETTING) yields
GET(privateKey) ==
    LET configured == privateKey # ""
    IN  jsonResponse(200,
            [status |-> IF configured THEN "ready" ELSE "not_configured",
             message |-> IF configured THEN "Flow endpoint configurado e pronto"
                         ELSE "Chave privada nao configurada. Configure em /settings/flows"])

\* One GET.
Get ==
    /\ http = NoHttp
    /\ http' = [received |-> GetRequest, sync |-> "none", logged |-> <<>>,
                external |-> [ok |-> TRUE, eventId |-> ""]]
               @@ GET(keyStore.privateKey)
    /\ UNCHANGED <<stored, connected, busyItems, events, now, req, resp, calls, scenario,
                   keyStore>>

\* The response has left the endpoint.
Respond ==
    /\ http # NoHttp
    /\ http' = NoHttp
    /\ req' = NoRequest
    /\ resp' = NoResponse
    /\ calls' = <<>>
    /\ UNCHANGED <<stored, connected, busyItems, events, now, scenario, keyStore>>

\* Between two POSTs the clock advances and the calendar connection comes and goes.
BetweenPosts == http = NoHttp /\ (Tick \/ ConnectCalendar \/ DisconnectCalendar)

NextEndpoint ==
    \/ Post
    \/ Get
    \/ Respond
    \/ BetweenPosts

SpecEndpoint == InitEndpoint /\ [][NextEndpoint]_vars

\* ------------------------------------------- the same request delivered twice

\* The kind of a response: a thrown Error (left to the endpoint), the
\* acknowledgement, an error response, a screen, or a close payload.
KindOf(result) ==
    CASE "thrown" \in DOMAIN result -> "thrown"
      [] IsAck(result) -> "ack"
      [] IsError(result) -> "error"
      [] "screen" \in DOMAIN result -> "screen"
      [] OTHER -> "close"

FieldsOf(result) == IF "data" \in DOMAIN result THEN DOMAIN result.data ELSE {}

\* What is kept of a delivery to compare the next one with.
ShapeOf(request, env, result) ==
    [request |-> request, kind |-> KindOf(result), screen |-> ScreenOf(result),
     fields |-> FieldsOf(result), connected |-> env.connected, ok |-> env.busyOk]

RepeatData ==
    { d \in RequestData : /\ d.selected_date \in {NoDate, 1}
                          /\ d.selected_slot # BadSlot
                          /\ d.customer_name \in {"", "Ana"} }

RepeatRequests == [action : Actions, screen : Screens \ {""}, data : RepeatData]

\* A request is delivered for the first time.
FirstDelivery ==
    \E request \in RepeatRequests, external \in ExternalOutcomes :
        /\ scenario.step = 0
        /\ Answer(request, EnvOf(external))
        /\ scenario' = [step |-> 1] @@ ShapeOf(request, EnvOf(external), resp')

\* The same request is delivered again, later.
Redelivery ==
    \E external \in ExternalOutcomes :
        /\ scenario.step = 1
        /\ Answer(scenario.request, EnvOf(external))
        /\ scenario' = [scenario EXCEPT !.step = 2]

\* The response leaves; after the second one the pair is over.
ReplyRepeat ==
    /\ req # NoRequest
    /\ req' = NoRequest
    /\ resp' = NoResponse
    /\ calls' = <<>>
    /\ scenario' = IF scenario.step = 2 THEN NoScenario ELSE scenario
    /\ UNCHANGED <<stored, connected, busyItems, events, now, keyStore, http>>

NextRepeat ==
    \/ FirstDelivery
    \/ Redelivery
    \/ ReplyRepeat
    \/ Environment

SpecRepeat == Init /\ [][NextRepeat]_vars

\* The calendar was connected at both deliveries or at neither, and answered
\* its calls at both or at neither.
SameCalendarConditions ==
    /\ scenario.connected = connected
    /\ scenario.ok = (\A i \in 1..Len(calls) : calls[i].ok)

\* C14 as stated: two deliveries of the same (action, screen, data), the
\* calendar being as reachable the second time as the first, are answered with
\* responses of the same kind, the same screen and the same fields.
C14_AsStated ==
    (req # NoRequest /\ scenario.step = 2 /\ SameCalendarConditions) =>
        /\ KindOf(resp) = scenario.kind
        /\ ScreenOf(resp) = scenario.screen
        /\ FieldsOf(resp) = scenario.fields

\* C14 (amended): two deliveries of the same (action, screen, data), with the
\* calendar connected both times or neither and its calls answered both times
\* or neither, are answered with responses of the same kind, screen and fields,
\* whatever the clock and the calendar did in between and whatever was
\* requested before; only a date submission on BOOKING_START may go to
\* SELECT_TIME one time and back to BOOKING_START with has_error the other.
C14_Determinism ==
    (req # NoRequest /\ scenario.step = 2 /\ SameCalendarConditions) =>
        /\ KindOf(resp) = scenario.kind
        /\ \/ /\ ScreenOf(resp) = scenario.screen
              /\ FieldsOf(resp) = scenario.fields
           \/ /\ Exchange("BOOKING_START") /\ req.data.selected_date >= 0
              /\ {ScreenOf(resp), scenario.screen} = {"SELECT_TIME", "BOOKING_START"}

C14_Witness ==
    /\ scenario.step = 2 /\ Exchange("CUSTOMER_INFO")
    /\ scenario.kind = "close" /\ IsClose(resp)
    /\ Len(events) = 2 /\ events[1] = events[2]
    /\ now > StartNow

\* ------------------------------------------------- a BACK that arrives late

\* One conversation: consulta on 2026-01-02 at 14:00, for Ana.
ConversationDraft ==
    [EmptyData EXCEPT !.selected_date = 1, !.selected_service = "consulta"]

\* The BACK requests of the conversation: from SELECT_TIME, and from
\* CUSTOMER_INFO with the slot chosen (and the slot list it was offered).
StaleBacks ==
    { [action |-> "BACK", screen |-> "SELECT_TIME", data |-> ConversationDraft],
      [action |-> "BACK", screen |-> "CUSTOMER_INFO",
       data |-> [ConversationDraft EXCEPT !.selected_slot = StaleSlot]],
      [action |-> "BACK", screen |-> "CUSTOMER_INFO",
       data |-> [slots |-> << [id |-> StaleSlot, title |-> "14:00"] >>]
                @@ [ConversationDraft EXCEPT !.selected_slot = StaleSlot]] }

\* The submissions of the conversation that lie further on.
AdvancedExchanges ==
    { [action |-> "data_exchange", screen |-> "BOOKING_START", data |-> ConversationDraft],
      [action |-> "data_exchange", screen |-> "SELECT_TIME",
       data |-> [ConversationDraft EXCEPT !.selected_slot = StaleSlot]] }
    \cup
    { [action |-> "data_exchange", screen |-> "CUSTOMER_INFO",
       data |-> [ConversationDraft EXCEPT !.selected_slot = StaleSlot,
                                          !.customer_name = n]] : n \in {"", "Ana"} }

\* The data_exchange is delivered while the BACK sent before it is still on
\* its way; expected is what the BACK would have been answered at this moment.
AdvancedDelivery ==
    \E back \in StaleBacks, exchange \in AdvancedExchanges,
       external \in ExternalOutcomes, later \in ExternalOutcomes :
        /\ scenario.step = 0
        /\ Answer(exchange, EnvOf(external))
        /\ scenario' = [step |-> 1, back |-> back, external |-> later,
                        expected |-> ResponseOf(handleFlowAction(back, EnvOf(later)))]

\* The BACK arrives after the data_exchange.
StaleBack ==
    /\ scenario.step = 1
    /\ Answer(scenario.back, EnvOf(scenario.external))
    /\ scenario' = [scenario EXCEPT !.step = 2]

\* The BACK arrives in order, before any data_exchange.
TimelyBack ==
    \E back \in StaleBacks, external \in ExternalOutcomes :
        /\ scenario.step = 0
        /\ Answer(back, EnvOf(external))
        /\ scenario' = [step |-> 2, back |-> back, external |-> external,
                        expected |-> resp']

\* Clock and calendar move between conversations, not inside one.
BetweenConversations == scenario.step = 0 /\ Environment

NextStale ==
    \/ AdvancedDelivery
    \/ StaleBack
    \/ TimelyBack
    \/ ReplyRepeat
    \/ BetweenConversations

SpecStale == Init /\ [][NextStale]_vars

\* C15 as stated: a BACK delivered after a further-advanced data_exchange of
\* its conversation is answered exactly as it would have been answered had it
\* been delivered first.
C15_AsStated ==
    (req # NoRequest /\ scenario.step = 2) => resp = scenario.expected

\* C15 (amended): a BACK delivered after a further-advanced data_exchange of
\* its conversation is answered with the kind, the screen and the fields it
\* would have been answered with had it been delivered first, every field but
\* the slot list having the same value; the slot list is listed anew from the
\* calendar and offers no slot it would not have offered before.
C15_StaleBack ==
    (req # NoRequest /\ scenario.step = 2) =>
        /\ KindOf(resp) = KindOf(scenario.expected)
        /\ ScreenOf(resp) = ScreenOf(scenario.expected)
        /\ FieldsOf(resp) = FieldsOf(scenario.expected)
        /\ KindOf(resp) = "thrown" => resp = scenario.expected
        /\ \A k \in FieldsOf(resp) \ {"slots"} : resp.data[k] = scenario.expected.data[k]
        /\ "slots" \in FieldsOf(resp) =>
              {resp.data.slots[i] : i \in 1..Len(resp.data.slots)}
                 \subseteq {scenario.expected.data.slots[i] :
                               i \in 1..Len(scenario.expected.data.slots)}

C15_Witness ==
    /\ scenario.step = 2 /\ req.action = "BACK" /\ req.screen = "CUSTOMER_INFO"
    /\ Len(events) >= 1
    /\ ScreenOf(resp) = "SELECT_TIME"
    /\ Len(resp.data.slots) >= 1
    /\ resp.data.slots # scenario.expected.data.slots

\* ------------------------------------------- properties of the crypto envelope

\* The POST was answered with ciphertext.
AnsweredWithCiphertext == http.status = 200 /\ http.contentType = "text/plain"

\* What the client sent and holds: its IV, and the session key it wrapped.
RequestIV == fromBase64(http.received.initial_vector)

RequestSessionKey == fromBase64(http.received.encrypted_aes_key).oaep

\* The sealed box that travels back in the response body.
ResponseBox == fromBase64(http.body)

\* C16: whenever a request is answered with ciphertext, the IV the response
\* was sealed under is the bitwise complement of that request's IV over all
\* 16 bytes, and the key it was sealed under is that request's session key.
C16_ResponseIV ==
    AnsweredWithCiphertext =>
        /\ Len(RequestIV) = 16
        /\ Len(ResponseBox.iv) = 16
        /\ \A i \in 1..16 :
              /\ ResponseBox.iv[i] \in 0..255
              /\ ResponseBox.iv[i] + RequestIV[i] = 255
        /\ ResponseBox.key = RequestSessionKey

\* A booking submission answered with ciphertext under an IV of mixed bytes.
C16_Witness ==
    /\ AnsweredWithCiphertext
    /\ req.action = "data_exchange"
    /\ RequestIV = [i \in 1..16 |-> (37 * i) % 256]
    /\ ResponseBox.iv # RequestIV

\* A decryptor outside the endpoint, holding the session key and the request
\* IV: it opens the box under the complement of the IV and parses the text.
referenceDecrypt(text, aesKey, iv) ==
    LET opened == gcmDecrypt(fromBase64(text), aesKey, [i \in 1..Len(iv) |-> 255 - iv[i]])
    IN  IF opened.threw THEN opened ELSE parse(opened.value)

\* The plaintext the endpoint had to answer with.
ResponsePlaintext ==
    IF req = NoRequest THEN pingResponse
    ELSE IF "thrown" \in DOMAIN resp THEN createErrorResponse(resp.thrown)
    ELSE resp

\* What the client sealed, and whether it reached the endpoint as sealed under
\* the public key of the pair the endpoint holds.
SentBox == fromBase64(http.received.encrypted_flow_data)

SentUnderMatchingKey ==
    /\ http.status # 0
    /\ http.received \in Envelopes
    /\ fromBase64(http.received.encrypted_aes_key).publicKey = keyStore.publicKey
    /\ SentBox.intact
    /\ "json" \in DOMAIN SentBox.sealed

PingDecrypted ==
    /\ http.status # 0
    /\ http.received \in Envelopes
    /\ LET decrypted == decryptRequest(http.received, keyStore.privateKey)
       IN  ~decrypted.threw /\ decrypted.value.decryptedBody = Ping

\* C18: a health-check request that decrypts is answered with HTTP 200 and
\* content-type text/plain, the body being the ciphertext of a payload whose
\* data is {status: "active"}, never that payload in the clear; and the
\* booking state machine is not called for it: it gets no request, reads no
\* setting and calls no calendar.
C18_Ping ==
    PingDecrypted =>
        /\ http.status = 200
        /\ http.contentType = "text/plain"
        /\ DOMAIN http.body = {"base64"}
        /\ DOMAIN ResponseBox = {"sealed", "key", "iv", "intact"}
        /\ LET recovered == referenceDecrypt(http.body, RequestSessionKey, RequestIV)
           IN  ~recovered.threw /\ recovered.value = [data |-> [status |-> "active"]]
        /\ req = NoRequest
        /\ resp = NoResponse
        /\ calls = <<>>

\* A health check answered by an endpoint that had a booking made earlier.
C18_Witness ==
    /\ PingDecrypted
    /\ http.status = 200
    /\ ResponseBox.sealed = stringify(pingResponse)
    /\ Len(events) > 0

\* The session key arrived wrapped under a public key that is not the one of
\* the private key the endpoint holds: the asymmetric unwrap fails.
KeyMismatch ==
    /\ http.status # 0
    /\ http.received \in Envelopes
    /\ fromBase64(http.received.encrypted_aes_key).publicKey # keyStore.publicKey

\* C19: when the asymmetric unwrap fails on a key mismatch, the POST answers
\* with status 421 (neither 200 nor 500) and a JSON body made of the fixed
\* error text and the fixed remediation hint, so nothing of the plaintext or
\* of a key; the state machine is not called.
C19_KeyMismatch ==
    KeyMismatch =>
        /\ http.status = 421
        /\ http.status \notin {200, 500}
        /\ http.contentType = "application/json"
        /\ http.body =
             [error |-> "Falha na descriptografia",
              hint |-> "Chave publica no Flow da Meta nao corresponde a chave privada do servidor. Verifique a configuracao das chaves."]
        /\ req = NoRequest
        /\ resp = NoResponse
        /\ calls = <<>>

\* A contact submission sealed, whole, under the key of another pair.
C19_Witness ==
    /\ KeyMismatch
    /\ http.status = 421
    /\ SentBox.intact
    /\ SentBox.sealed \in {stringify(request) : request \in EndpointRequests}
    /\ SentBox.sealed.json.screen = "CUSTOMER_INFO"
    /\ keyStore = KeyPair(3)

\* The response as the client sees it.
HttpResponse == [status |-> http.status, contentType |-> http.contentType, body |-> http.body]

\* A body fails the asymmetric unwrap, or passes it and fails the symmetric
\* authentication, at an endpoint holding the given keys.
unwrapFails(body, keys) == fromBase64(body.encrypted_aes_key).publicKey # keys.publicKey

integrityFails(body, keys) ==
    /\ fromBase64(body.encrypted_aes_key).publicKey = keys.publicKey
    /\ ~fromBase64(body.encrypted_flow_data).intact

\* The response POST gives to a body at an endpoint holding the given keys.
responseTo(body, keys) ==
    POST(body, EnvOf([ok |-> TRUE, eventId |-> ""]), keys, keys, "none").http

\* The body received passed the unwrap and failed the authentication.
IntegrityFailure ==
    /\ http.status # 0
    /\ http.received \in Envelopes
    /\ integrityFails(http.received, keyStore)

\* C20: the response to a key-mismatch failure is never identical to the
\* response to a payload-integrity failure, whatever body produced the one
\* and the other and whichever key pair the endpoint held.
C20_Distinguishable ==
    /\ KeyMismatch =>
          \A keys \in {KeyPair(1), KeyPair(3)}, body \in Envelopes :
              integrityFails(body, keys) => responseTo(body, keys) # HttpResponse
    /\ IntegrityFailure =>
          \A keys \in {KeyPair(1), KeyPair(3)}, body \in Envelopes :
              unwrapFails(body, keys) => responseTo(body, keys) # HttpResponse

\* A tampered body under the right key was refused, and a body under the
\* wrong key would have been refused too.
C20_Witness ==
    /\ IntegrityFailure
    /\ http.status = 421
    /\ \E body \in Envelopes :
          /\ unwrapFails(body, keyStore)
          /\ responseTo(body, keyStore).status = 421

\* ------------------------------------------ properties of the POST handler

\* The body received passed the unwrap and the authentication, and its
\* plaintext is not JSON, or is JSON without the fields of a request.
MalformedPayload ==
    /\ http.status # 0
    /\ http.received \in Envelopes
    /\ fromBase64(http.received.encrypted_aes_key).publicKey = keyStore.publicKey
    /\ SentBox.intact
    /\ SentBox.sealed \in {MalformedText} \cup {stringify(value) : value \in Schemaless}

\* The response reports an error: a JSON error body, or the ciphertext of
\* an error response.
ProcessingError ==
    \/ /\ http.status \in {400, 421, 500}
       /\ http.contentType = "application/json"
       /\ "error" \in DOMAIN http.body
    \/ /\ AnsweredWithCiphertext
       /\ ResponseBox.sealed \in {stringify(createErrorResponse(message)) :
                                    message \in {"Acao desconhecida: undefined"}}

\* C21: when the decrypted body is not valid JSON or lacks the required
\* request fields, the response is a processing error that is not the
\* key-mismatch response, and the state machine does not answer the body as
\* it answers a request: it renders nothing, acknowledges nothing and makes
\* no call.
C21_AsStated ==
    MalformedPayload =>
        /\ ProcessingError
        /\ HttpResponse # jsonResponse(421, decryptFailureBody("oaep decoding error"))
        /\ resp \in {NoResponse, createErrorResponse("Acao desconhecida: undefined")}
        /\ calls = <<>>

\* A POST with its required fields arrives while no private key is stored.
BootstrapStep ==
    /\ http = NoHttp
    /\ keyStore = NoKeys
    /\ http'.status # 0
    /\ http'.received \in Envelopes

\* C22: a POST that finds no private key stores both halves of a freshly
\* generated pair and answers as an endpoint holding that pair answers, by
\* decrypting with the new private key; and whether the registration of the
\* public key succeeded, threw or was skipped for lack of credentials, the
\* response, the keys stored and what the state machine was asked are the same.
C22_Bootstrap ==
    [][ BootstrapStep =>
          /\ keyStore' = KeyPair(3)
          /\ keyStore'.privateKey # ""
          /\ publicOf(keyStore'.privateKey) = keyStore'.publicKey
          /\ POST(http'.received, EnvOf(http'.external), KeyPair(3), KeyPair(3), "none").http
                = [status |-> http'.status, contentType |-> http'.contentType,
                   body |-> http'.body]
          /\ \A sync \in SyncOutcomes :
                LET result == POST(http'.received, EnvOf(http'.external), keyStore,
                                   KeyPair(3), sync)
                IN  /\ result.http = [status |-> http'.status,
                                      contentType |-> http'.contentType,
                                      body |-> http'.body]
                    /\ result.keyStore = keyStore'
                    /\ result.dispatched = (req' # NoRequest)
      ]_vars

\* The endpoint generated its pair, the registration threw, and the request,
\* sealed under a key of the past, got the key-mismatch response.
C22_Witness ==
    /\ http.status = 421
    /\ http.sync = "failed"
    /\ keyStore = KeyPair(3)
    /\ "hint" \in DOMAIN http.body

\* A GET is answered.
ProbeStep ==
    /\ http = NoHttp
    /\ http'.status # 0
    /\ http'.received = GetRequest

\* C23: the liveness probe answers "ready" exactly when a non-empty private
\* key is stored and "not_configured" otherwise; it leaves the stored keys
\* as they were, and it decrypts nothing and dispatches nothing: no request
\* reaches the state machine, no call is made, nothing is logged.
C23_Probe ==
    [][ ProbeStep =>
          /\ http'.status = 200
          /\ http'.contentType = "application/json"
          /\ DOMAIN http'.body = {"status", "message"}
          /\ http'.body.status \in {"ready", "not_configured"}
          /\ (http'.body.status = "ready") <=> (keyStore.privateKey # "")
          /\ keyStore' = keyStore
          /\ req' = NoRequest
          /\ calls' = <<>>
          /\ events' = events
          /\ http'.logged = <<>>
      ]_vars

\* The probe found no key, and left none.
C23_Witness ==
    /\ http.status = 200
    /\ http.received = GetRequest
    /\ http.body.status = "not_configured"
    /\ keyStore = NoKeys

\* A POST whose body decrypted was answered.
Decrypted ==
    /\ http.status # 0
    /\ http.received \in Envelopes
    /\ ~decryptRequest(http.received, keyStore.privateKey).threw

\* The plaintext of the request, as the handler holds it.
RequestPlaintext == destructure(SentBox.sealed.json)

\* A log entry shows the session key, the data of the request, or the
\* response of the handler.
Discloses(entry) ==
    \/ \E field \in DOMAIN entry \ {"line", "error", "action", "screen"} :
          entry[field] \in {stringify(RequestPlaintext.data), stringify(resp)}
    \/ \E field \in DOMAIN entry \ {"line"} : entry[field] = toBase64(RequestSessionKey)

\* C24: on every path of the POST, the log shows neither the session key nor
\* the decrypted request nor the response of the handler; nothing but the key
\* pair is stored; and a JSON error body is made of fixed texts and of the
\* message of an Error, never of request data.
C24_AsStated ==
    Decrypted /\ SentBox.sealed.json # Null =>
        /\ \A i \in 1..Len(http.logged) : ~Discloses(http.logged[i])
        /\ keyStore \in {KeyPair(1), KeyPair(3)}
        /\ http.contentType = "application/json" =>
              http.body \notin {[error |-> stringify(RequestPlaintext.data)]}

\* ------------------------------------------------- the availability engine

\* A working day with explicit periods.
PeriodDay(day, enabled, periods) ==
    [day |-> day, enabled |-> enabled, start |-> "09:00", end |-> "18:00", slots |-> periods]

Period(start, end) == [start |-> start, end |-> end]

\* Monday to Thursday as in the defaults, then the given days.
WeekEnding(days) ==
    << WorkDay("mon", TRUE, "09:00", "18:00"),
       WorkDay("tue", TRUE, "09:00", "18:00"),
       WorkDay("wed", TRUE, "09:00", "18:00"),
       WorkDay("thu", TRUE, "09:00", "18:00") >> \o days

\* One-minute slots around noon: candidates at 12:00, 12:01 and 12:02.
BoundaryConfig ==
    [slotDurationMinutes |-> 1,
     slotBufferMinutes |-> 0,
     workingHours |->
        << WorkDay("mon", TRUE, "12:00", "12:03"),
           WorkDay("tue", TRUE, "12:00", "12:03"),
           WorkDay("wed", TRUE, "12:00", "12:03"),
           WorkDay("thu", TRUE, "12:00", "12:03"),
           WorkDay("fri", TRUE, "12:00", "12:03"),
           WorkDay("sat", TRUE, "12:00", "12:03"),
           WorkDay("sun", FALSE, "12:00", "12:03") >>]

\* Periods placed around a busy interval of 10:00 to 10:30; no notice asked.
BufferedConfig ==
    [minAdvanceHours |-> 0,
     workingHours |-> WeekEnding(<< WorkDay("fri", TRUE, "09:49", "11:19"),
                                    PeriodDay("sat", TRUE, << Period("09:20", "09:50"),
                                                              Period("09:40", "10:10"),
                                                              Period("09:49", "10:19"),
                                                              Period("10:40", "11:10") >>),
                                    WorkDay("sun", TRUE, "09:40", "11:10") >>)]

\* Periods listed out of order, and periods that overlap.
UnorderedConfig ==
    [minAdvanceHours |-> 0,
     workingHours |-> WeekEnding(<< PeriodDay("fri", TRUE, << Period("14:00", "15:00"),
                                                              Period("09:00", "10:00") >>),
                                    PeriodDay("sat", TRUE, << Period("09:00", "10:00"),
                                                              Period("09:30", "10:30") >>),
                                    WorkDay("sun", FALSE, "09:00", "13:00") >>)]

\* A zone ahead of UTC, a short range, and no entry at all for Sunday.
TokyoConfig ==
    [timezone |-> "Asia/Tokyo",
     maxAdvanceDays |-> 5,
     slotDurationMinutes |-> 45,
     workingHours |-> WeekEnding(<< WorkDay("fri", TRUE, "09:00", "11:00"),
                                    WorkDay("sat", FALSE, "09:00", "13:00") >>)]

AvailabilityConfigs ==
    StoredConfigs
    \cup { [kind |-> "json", value |-> value] :
             value \in {BoundaryConfig, BufferedConfig, UnorderedConfig, TokyoConfig} }

\* What others hold in the external calendar: nothing; 10:00 to 10:30 in Sao
\* Paulo on the second, third and fourth of January; 14:00 to 15:00 UTC on the
\* second.
BusySamples ==
    { {},
      { [start |-> d * MinutesPerDay + 780, end |-> d * MinutesPerDay + 810] : d \in 1..3 },
      { [start |-> MinutesPerDay + 840, end |-> MinutesPerDay + 900] } }

\* The clock: 2026-01-01 12:00Z, 2026-01-02 01:00Z (still the first in Sao
\* Paulo), the start of the other specifications, and 2026-01-02 15:00Z
\* (midnight of the third in Tokyo).
Clocks == {720, 1500, StartNow, 2340}

\* The dates asked for: Friday the second to Monday the fifth.
ListedDates == 1..4

NotListed ==
    [step |-> 0, date |-> NoDate, slots |-> <<>>, picker |-> <<>>,
     dayKey |-> "", pickerDayKey |-> ""]

InitAvailability ==
    /\ stored \in AvailabilityConfigs
    /\ connected = TRUE
    /\ busyItems \in BusySamples
    /\ events = <<>>
    /\ now \in Clocks
    /\ req = NoRequest
    /\ resp = NoResponse
    /\ calls = <<>>
    /\ scenario = NotListed
    /\ keyStore = KeyPair(1)
    /\ http = NoHttp

\* getAvailableSlots and getCalendarPickerData run for one date; the weekday
\* each of them resolves for that date is kept beside what they return.
ListSlots ==
    \E dateStr \in ListedDates :
        /\ scenario.step = 0
        /\ scenario' =
             [step |-> 1, date |-> dateStr,
              slots |-> getAvailableSlots(dateStr, EnvOf([ok |-> TRUE, eventId |-> ""])).value,
              picker |-> getCalendarPickerData(getCalendarBookingConfig(stored), now),
              dayKey |-> listingDayKey(dateStr, getCalendarBookingConfig(stored)),
              pickerDayKey |-> utcWeekdayKey(dateStr)]
        /\ UNCHANGED <<stored, connected, busyItems, events, now, req, resp, calls,
                       keyStore, http>>

\* The lists went out with a response; nothing of them is kept.
ForgetSlots ==
    /\ scenario.step = 1
    /\ scenario' = NotListed
    /\ UNCHANGED <<stored, connected, busyItems, events, now, req, resp, calls,
                   keyStore, http>>

NextAvailability ==
    \/ ListSlots
    \/ ForgetSlots

SpecAvailability == InitAvailability /\ [][NextAvailability]_vars

\* --------------------------------------- properties of the availability engine

Listed == scenario.step = 1

\* The instants at which the listed slots start.
ListedStarts == {scenario.slots[i].id : i \in 1..Len(scenario.slots)}

\* The working-hours entry of the weekday of a date, when it has one.
HasEntry(dateStr) ==
    \E i \in 1..Len(Config.workingHours) : Config.workingHours[i].day = WeekdayOfDate(dateStr)

DayEntry(dateStr) ==
    Config.workingHours[CHOOSE i \in 1..Len(Config.workingHours) :
        /\ Config.workingHours[i].day = WeekdayOfDate(dateStr)
        /\ \A j \in 1..(i - 1) : Config.workingHours[j].day # WeekdayOfDate(dateStr)]

EnabledDate(dateStr) == HasEntry(dateStr) /\ DayEntry(dateStr).enabled

\* The work periods of a date, in minutes of the day.
PeriodsOfDate(dateStr) ==
    LET entry == DayEntry(dateStr)
        given == IF entry.slots # <<>> THEN {entry.slots[i] : i \in 1..Len(entry.slots)}
                 ELSE {Period(entry.start, entry.end)}
    IN  { [from |-> parseTimeToMinutes(p.start), to |-> parseTimeToMinutes(p.end)] :
            p \in given }

\* The instant of a minute of the day of a date, in the configured zone.
InstantOf(dateStr, minute) == dateStr * MinutesPerDay + minute - TzOffset(Config.timezone)

\* The candidate starts of a date: periodStart + k * slotDurationMinutes, for
\* k >= 0, as long as the slot ends by the period's end.
PeriodCandidates(dateStr) ==
    { InstantOf(dateStr, pk[1].from + pk[2] * Config.slotDurationMinutes) :
        pk \in { x \in PeriodsOfDate(dateStr) \X (0..MinutesPerDay) :
                   x[1].from + (x[2] + 1) * Config.slotDurationMinutes <= x[1].to } }

\* The earliest instant the advance notice does not reach.
MinAllowed == now + Config.minAdvanceHours * 60

\* Nothing filters the candidates of the listed date: the calendar is empty
\* and every candidate is later than the advance notice.
Unfiltered ==
    /\ busyItems = {}
    /\ \A c \in PeriodCandidates(scenario.date) : c > MinAllowed

\* C25: on an enabled weekday every listed slot is a candidate of one of the
\* day's work periods (the explicit periods, or the {start, end} pair when
\* there are none): it starts at periodStart + k * slotDurationMinutes, not
\* before the period's start, and ends by the period's end; and when nothing
\* filters them the listed slots are exactly the candidates.
C25_Candidates ==
    Listed /\ EnabledDate(scenario.date) =>
        /\ ListedStarts \subseteq PeriodCandidates(scenario.date)
        /\ \A t \in ListedStarts :
              \E p \in PeriodsOfDate(scenario.date) :
                 /\ t >= InstantOf(scenario.date, p.from)
                 /\ t + Config.slotDurationMinutes <= InstantOf(scenario.date, p.to)
                 /\ (t - InstantOf(scenario.date, p.from)) % Config.slotDurationMinutes = 0
        /\ Unfiltered => ListedStarts = PeriodCandidates(scenario.date)

\* Friday's two explicit periods, 09:00 to 10:30 and 14:00 to 16:00 with
\* 60-minute slots, listed unfiltered: 09:00, 14:00 and 15:00.
C25_Witness ==
    /\ Listed
    /\ Unfiltered
    /\ Config.slotDurationMinutes = 60
    /\ Len(DayEntry(scenario.date).slots) = 2
    /\ [i \in 1..Len(scenario.slots) |-> scenario.slots[i].title] = <<"09:00", "14:00", "15:00">>

\* C26: every listed slot starts strictly after now + minAdvanceHours, so a
\* candidate starting exactly then, or earlier, is not listed; and with an
\* empty calendar every candidate starting later is listed: the advance
\* notice excludes nothing else.
C26_AdvanceNotice ==
    Listed /\ EnabledDate(scenario.date) =>
        /\ \A t \in ListedStarts : t > MinAllowed
        /\ \A c \in PeriodCandidates(scenario.date) :
              c <= MinAllowed => c \notin ListedStarts
        /\ busyItems = {} =>
              \A c \in PeriodCandidates(scenario.date) :
                 c > MinAllowed => c \in ListedStarts

\* With four hours of notice and the clock at 08:00 in Sao Paulo, of the
\* candidates 12:00, 12:01 and 12:02 the first is left out and 12:01 is listed.
C26_Witness ==
    /\ Listed
    /\ Config.minAdvanceHours = 4
    /\ Config.timezone = "America/Sao_Paulo"
    /\ formatTime(now, Config.timezone) = "08:00"
    /\ formatDateKey(now, Config.timezone) = scenario.date
    /\ InstantOf(scenario.date, 720) = MinAllowed
    /\ InstantOf(scenario.date, 720) \in PeriodCandidates(scenario.date)
    /\ InstantOf(scenario.date, 720) \notin ListedStarts
    /\ InstantOf(scenario.date, 721) \in ListedStarts

\* A candidate starting at t overlaps a calendar entry widened by
\* slotBufferMinutes on both ends, under the strict half-open test.
OverlapsBuffered(t) ==
    \E item \in busyItems :
        /\ t < item.end + Config.slotBufferMinutes
        /\ t + Config.slotDurationMinutes > item.start - Config.slotBufferMinutes

\* C27: no listed slot overlaps a busy interval widened by the buffer, and a
\* candidate past the advance notice is listed exactly when it does not: one
\* that only touches a widened interval, at its start or at its end, is kept.
C27_BufferedOverlap ==
    Listed /\ EnabledDate(scenario.date) =>
        /\ \A t \in ListedStarts : ~OverlapsBuffered(t)
        /\ \A c \in PeriodCandidates(scenario.date) :
              c > MinAllowed => (c \in ListedStarts <=> ~OverlapsBuffered(c))

\* Busy 10:00-10:30 with a 10-minute buffer and 30-minute slots: of the
\* candidates 09:20, 09:40, 09:49 and 10:40, the slot ending at 09:50 and the
\* slot starting at 10:40 are listed, and 09:40 and 09:49 are not.
C27_Witness ==
    /\ Listed
    /\ Config.slotBufferMinutes = 10
    /\ Config.slotDurationMinutes = 30
    /\ [start |-> InstantOf(scenario.date, 600), end |-> InstantOf(scenario.date, 630)] \in busyItems
    /\ { InstantOf(scenario.date, m) : m \in {560, 580, 589, 640} }
          = PeriodCandidates(scenario.date)
    /\ \A c \in PeriodCandidates(scenario.date) : c > MinAllowed
    /\ [i \in 1..Len(scenario.slots) |-> scenario.slots[i].title] = << "09:20", "10:40" >>

\* C28: the listed slots are in strictly increasing chronological order, with
\* no start instant listed twice, whatever the work periods of the day are.
C28_AsStated ==
    Listed =>
        \A i, j \in 1..Len(scenario.slots) :
            i < j => scenario.slots[i].id < scenario.slots[j].id

Picker == scenario.picker

PickerRange == Picker.minDate..Picker.maxDate

\* C29: the picker's minDate is today's date in the configured time zone,
\* maxDate is minDate + maxAdvanceDays, includeDays names exactly the enabled
\* weekdays, and unavailableDates holds exactly the dates from minDate to
\* maxDate whose weekday is disabled or has no working-hours entry.
C29_PickableDates ==
    Listed =>
        /\ Picker.minDate = (now + TzOffset(Config.timezone)) \div MinutesPerDay
        /\ Picker.maxDate = Picker.minDate + Config.maxAdvanceDays
        /\ {Picker.includeDays[i] : i \in 1..Len(Picker.includeDays)}
              = {WEEKDAY_LABELS[d] : d \in EnabledWeekdays}
        /\ \A i \in 1..Len(Picker.unavailableDates) :
              Picker.unavailableDates[i] \in PickerRange
        /\ \A d \in PickerRange :
              (\E i \in 1..Len(Picker.unavailableDates) : Picker.unavailableDates[i] = d)
                 <=> WeekdayOfDate(d) \notin EnabledWeekdays

\* At 2026-01-02 15:00Z it is already Saturday the third in Tokyo: the range
\* is the third to the eighth, and of it the disabled Saturday and the Sunday
\* without an entry are unavailable.
C29_Witness ==
    /\ Listed
    /\ Config.timezone = "Asia/Tokyo"
    /\ now \div MinutesPerDay = 1
    /\ Picker.minDate = 2
    /\ Picker.maxDate = 7
    /\ Picker.unavailableDates = << 2, 3 >>
    /\ ~HasEntry(3)
    /\ Picker.includeDays = << "Mon", "Tue", "Wed", "Thu", "Fri" >>

Unavailable(dateStr) ==
    \E i \in 1..Len(Picker.unavailableDates) : Picker.unavailableDates[i] = dateStr

\* The picker offers the date: in range, on an included weekday, not excluded.
Offered(dateStr) ==
    /\ dateStr \in PickerRange
    /\ \E i \in 1..Len(Picker.includeDays) :
          Picker.includeDays[i] = WEEKDAY_LABELS[WeekdayOfDate(dateStr)]
    /\ ~Unavailable(dateStr)

\* Slot listing treats the weekday it resolved as a working day.
ListingEnabled ==
    \E i \in 1..Len(Config.workingHours) :
        Config.workingHours[i].day = scenario.dayKey /\ Config.workingHours[i].enabled

C31_AsStated ==
    Listed =>
        /\ \A k \in {WEEKDAY_KEYS[n] : n \in 1..7} :
              Cardinality({i \in 1..Len(Config.workingHours) :
                              Config.workingHours[i].day = k}) = 1
        /\ Len(Config.workingHours) = 7
        /\ Config.slotDurationMinutes > 0

\* ------------------------------------------------- two concurrent conversations

\* Two conversations submit CUSTOMER_INFO for the same slot. Each handler
\* runs up to its next await; the awaited operations of the two interleave.
Conversations == {1, 2}

\* Contact submissions for 2026-01-02 14:00, with and without a name.
SameSlotRequests ==
    { [action |-> "data_exchange", screen |-> "CUSTOMER_INFO", data |-> d] :
        d \in {i \in InfoData : i.selected_slot = StaleSlot} }

NotSubmitted ==
    [pc |-> "none", request |-> NoRequest, connected |-> FALSE, called |-> FALSE,
     ok |-> FALSE, resp |-> NoResponse]

\* The world a handler saw through its awaited calls so far.
SeenEnv(proc, external) ==
    [stored |-> stored, connected |-> proc.connected, busyItems |-> busyItems,
     events |-> events, now |-> now,
     busyOk |-> external.ok, createOk |-> external.ok, eventId |-> external.eventId]

\* What handleFlowAction returns, a thrown Error kept as such.
Outcome(request, env) ==
    LET outcome == handleFlowAction(request, env)
    IN  [resp |-> IF outcome.threw THEN [thrown |-> outcome.value] ELSE outcome.value,
         created |-> outcome.created,
         called |-> \E i \in 1..Len(outcome.calls) : outcome.calls[i].op = "createEvent"]

InitConcurrent ==
    /\ stored \in StoredConfigs
    /\ connected = TRUE
    /\ busyItems = {}
    /\ events = <<>>
    /\ now = StartNow
    /\ req = NoRequest
    /\ resp = NoResponse
    /\ calls = <<>>
    /\ scenario = [c \in Conversations |-> NotSubmitted]
    /\ keyStore = KeyPair(1)
    /\ http = NoHttp

ConcurrentFrame == UNCHANGED <<stored, connected, busyItems, now, req, resp, calls, keyStore, http>>

\* The request arrives; a blank name is answered before anything is awaited.
Submit(c) ==
    \E request \in SameSlotRequests :
        /\ scenario[c].pc = "none"
        /\ scenario' =
             [scenario EXCEPT ![c] =
                IF nameMissing(request.data.customer_name)
                THEN [@ EXCEPT !.pc = "done", !.request = request,
                               !.resp = createErrorResponse("Informe seu nome")]
                ELSE [@ EXCEPT !.pc = "getCalendarBookingConfig", !.request = request]]
        /\ UNCHANGED events
        /\ ConcurrentFrame

\* createBookingEvent: await getCalendarBookingConfig()
AwaitBookingConfig(c) ==
    /\ scenario[c].pc = "getCalendarBookingConfig"
    /\ scenario' = [scenario EXCEPT ![c].pc = "getCalendarConfig"]
    /\ UNCHANGED events
    /\ ConcurrentFrame

\* createBookingEvent: await getCalendarConfig(); without a calendarId the
\* handler throws and the catch of handleDataExchange answers.
AwaitCalendarConfig(c) ==
    /\ scenario[c].pc = "getCalendarConfig"
    /\ scenario' =
         [scenario EXCEPT ![c] =
            IF connected
            THEN [@ EXCEPT !.pc = "createEvent", !.connected = TRUE]
            ELSE [@ EXCEPT !.pc = "done",
                           !.resp = Outcome(scenario[c].request,
                                            SeenEnv(scenario[c],
                                                    [ok |-> TRUE, eventId |-> ""])).resp]]
    /\ UNCHANGED events
    /\ ConcurrentFrame

\* createBookingEvent: await createEvent(...); the calendar keeps the event.
AwaitCreateEvent(c) ==
    \E external \in ExternalOutcomes :
        \E outcome \in {Outcome(scenario[c].request, SeenEnv(scenario[c], external))} :
            /\ scenario[c].pc = "createEvent"
            /\ events' = events \o outcome.created
            /\ scenario' =
                 [scenario EXCEPT ![c] =
                    [@ EXCEPT !.pc = IF outcome.created = <<>> THEN "done" ELSE "confirm",
                              !.called = outcome.called, !.ok = external.ok, !.resp = outcome.resp]]
            /\ ConcurrentFrame

\* handleDataExchange: await getCalendarBookingConfig() and the close response
Confirm(c) ==
    /\ scenario[c].pc = "confirm"
    /\ scenario' = [scenario EXCEPT ![c].pc = "done"]
    /\ UNCHANGED events
    /\ ConcurrentFrame

Converse(c) ==
    \/ Submit(c)
    \/ AwaitBookingConfig(c)
    \/ AwaitCalendarConfig(c)
    \/ AwaitCreateEvent(c)
    \/ Confirm(c)

CalendarLink ==
    /\ scenario' = scenario
    /\ (ConnectCalendar \/ DisconnectCalendar)

NextConcurrent ==
    \/ \E c \in Conversations : Converse(c)
    \/ CalendarLink

SpecConcurrent == InitConcurrent /\ [][NextConcurrent]_vars

\* ------------------------------------ properties of concurrent conversations

Finished(c) == scenario[c].pc = "done"

\* The conversation passed the name check and found the calendar connected.
ReachedCreate(c) ==
    /\ scenario[c].pc \in {"confirm", "done"}
    /\ ~nameMissing(scenario[c].request.data.customer_name)
    /\ scenario[c].connected

Booked(c) == scenario[c].called /\ scenario[c].ok

\* C32: nothing stands between a contact submission and createEvent but the
\* name check and the calendar connection: a conversation that passed both
\* called createEvent, whatever the calendar already held and whatever
\* allowSimultaneous says; a call the calendar answered ends in the close
\* response with success, and the calendar holds one event per answered call.
C32_NoLock ==
    /\ \A c \in Conversations : ReachedCreate(c) => scenario[c].called
    /\ \A c \in Conversations :
          Finished(c) /\ Booked(c) =>
             /\ IsClose(scenario[c].resp)
             /\ scenario[c].resp.data.success
             /\ scenario[c].resp.data.selected_slot = scenario[c].request.data.selected_slot
    /\ Len(events) = Cardinality({c \in Conversations : Booked(c)})

\* Both conversations ended in success for the same slot while the
\* configuration says allowSimultaneous = false: two events with one start.
C32_Witness ==
    /\ \A c \in Conversations : Finished(c) /\ IsClose(scenario[c].resp)
    /\ scenario[1].request.data.selected_slot = scenario[2].request.data.selected_slot
    /\ scenario[1].request.data.customer_name # scenario[2].request.data.customer_name
    /\ ~Config.allowSimultaneous
    /\ Len(events) = 2
    /\ events[1].start = events[2].start

\* ------------------------------------ properties of the POST handler, continued

\* The request was decrypted and its plaintext is a JSON object: the ping
\* short-circuit or the state machine receives it.
ReachesStateMachine == Decrypted /\ SentBox.sealed.json # Null

HandlerThrew == req # NoRequest /\ "thrown" \in DOMAIN resp

\* C33: once a request is decrypted and handed to the state machine, the POST
\* answers 200 text/plain with ciphertext sealed under that request's session
\* key and the complement of its IV, whatever the state machine did; when the
\* handler threw, the ciphertext opens to the error response made of the
\* Error's message, and the status is not 500.
C33_HandlerFailure ==
    ReachesStateMachine =>
        /\ http.status = 200
        /\ http.contentType = "text/plain"
        /\ ResponseBox.key = RequestSessionKey
        /\ ResponseBox.iv = [i \in 1..Len(RequestIV) |-> 255 - RequestIV[i]]
        /\ HandlerThrew =>
              /\ ~referenceDecrypt(http.body, RequestSessionKey, RequestIV).threw
              /\ referenceDecrypt(http.body, RequestSessionKey, RequestIV).value
                    = createErrorResponse(resp.thrown)

\* BACK from CUSTOMER_INFO with a date while the calendar is not connected:
\* the slot listing throws, and the answer is ciphertext with status 200.
C33_Witness ==
    /\ ReachesStateMachine
    /\ req.action = "BACK" /\ req.screen = "CUSTOMER_INFO"
    /\ ~connected
    /\ HandlerThrew
    /\ resp.thrown = "Google Calendar nao conectado"
    /\ http.status = 200



\* ---------------------------------------------- a body without its fields

\* if (!encrypted_flow_data || !encrypted_aes_key || !initial_vector)
LacksField(body) ==
    \/ body.encrypted_flow_data = Absent
    \/ body.encrypted_aes_key = Absent
    \/ body.initial_vector = Absent

\* C37: a POST whose body lacks encrypted_flow_data, encrypted_aes_key or
\* initial_vector is answered with status 400 and the missing-fields error,
\* and that is all it does: the stored keys stay as they were (none is
\* generated or stored), the peer platform is not contacted, nothing is
\* decrypted, no request reaches the state machine and the calendar is not
\* called.
C37_MissingFields ==
    [][(http = NoHttp /\ http' # NoHttp /\ "received" \in DOMAIN http'
          /\ http'.received # GetRequest /\ LacksField(http'.received))
        => /\ http'.status = 400
           /\ http'.body = [error |-> "Campos obrigatorios ausentes"]
           /\ keyStore' = keyStore
           /\ http'.sync = "none"
           /\ http'.logged = <<>>
           /\ req' = NoRequest
           /\ calls' = <<>>
           /\ events' = events]_vars

C37_Witness ==
    /\ http # NoHttp /\ http.received # GetRequest
    /\ http.received.encrypted_aes_key = Absent
    /\ http.status = 400
    /\ keyStore = NoKeys

\* ------------------------------------- a contact submission without a slot

\* The request is a contact submission with a name and no usable slot.
SubmitsWithoutSlot ==
    /\ req.action = "data_exchange" /\ req.screen = "CUSTOMER_INFO"
    /\ ~nameMissing(req.data.customer_name)
    /\ req.data.selected_slot \in {NoSlot, BadSlot}

CalledCreateEvent == \E i \in 1..Len(calls) : calls[i].op = "createEvent"

\* C36: a CUSTOMER_INFO data_exchange with a non-blank customer_name and a
\* missing or unparseable selected_slot never calls createEvent, leaves the
\* calendar without an event that has no start instant, and never answers
\* with the terminal close; unless the data is an error notification, the
\* answer is an error response.
C36_NoSlotNoEvent ==
    SubmitsWithoutSlot =>
        /\ ~CalledCreateEvent
        /\ events = <<>> \/ \A i \in 1..Len(events) : events[i].start >= 0
        /\ ~IsClose(resp)
        /\ ~req.data.error => IsError(resp)

C36_Witness ==
    /\ SubmitsWithoutSlot
    /\ req.data.selected_slot = BadSlot
    /\ connected
    /\ resp = createErrorResponse("Invalid time value")

\* ------------------------------------------------------ the stored key pair

\* Requests that read or write the two key settings, at most two in flight.
KeyClients == {1, 2}

\* How many requests the clients start in all.
MaxKeyRequests == 3

\* isValidPrivateKey(privateKey): the text is the private half of a key pair
isValidPrivateKey(privateKey) ==
    \E n \in 1..(MaxKeyRequests + 1) : privateKey = KeyPair(n).privateKey

\* Bodies of the key-management POST: none, a pair to import, and a pair
\* whose private half is no key.
KeyBodies ==
    { [privateKey |-> "", publicKey |-> ""],
      KeyPair(1),
      [privateKey |-> "not a key", publicKey |-> KeyPair(1).publicKey] }

KeyResult(status, write, keys) == [status |-> status, write |-> write, keys |-> keys]

keysPOST_storesInvalid(body, generated) ==
    IF body.privateKey # "" /\ body.publicKey # ""
    THEN KeyResult(200, TRUE, body)
    ELSE KeyResult(200, TRUE, generated)

\* keys route, POST: the pair to store, or 400 for an invalid private key
keysPOST(body, generated) ==
    IF body.privateKey # "" /\ body.publicKey # ""
    THEN IF ~isValidPrivateKey(body.privateKey)
         THEN KeyResult(400, FALSE, NoKeys)
         ELSE KeyResult(200, TRUE, body)
    ELSE KeyResult(200, TRUE, generated)

\* keys route, DELETE: both settings are set to ''
keysDELETE == KeyResult(200, TRUE, NoKeys)

\* endpoint route, POST: the private key found, or a generated pair to store
lookupPrivateKey(privateKey, generated) ==
    IF privateKey = "" THEN KeyResult(0, TRUE, generated)
    ELSE KeyResult(0, FALSE, [privateKey |-> privateKey, publicKey |-> ""])

NoKeyRequest ==
    [kind |-> "none", body |-> NoKeys, status |-> 0, keys |-> NoKeys,
     pendingPrivate |-> FALSE, pendingPublic |-> FALSE, alone |-> FALSE]

\* A request in flight: what it will answer, and the two settingsDb.set
\* calls of its Promise.all, each pending until the store has taken it; alone
\* says that no other request was in flight at any time since it started.
InFlight(kind, body, result, alone) ==
    [kind |-> kind, body |-> body, status |-> result.status, keys |-> result.keys,
     pendingPrivate |-> result.write, pendingPublic |-> result.write, alone |-> alone]

InitKeys ==
    /\ stored \in StoredConfigs
    /\ connected = TRUE
    /\ busyItems = {}
    /\ events = <<>>
    /\ now = StartNow
    /\ req = NoRequest
    /\ resp = NoResponse
    /\ calls = <<>>
    /\ keyStore \in {NoKeys, KeyPair(1)}
    /\ scenario = [flight |-> [c \in KeyClients |-> NoKeyRequest],
                   generated |-> 1, started |-> 0, answered |-> <<>>]
    /\ http = NoHttp

KeysFrame == UNCHANGED <<stored, connected, busyItems, events, now, req, resp, calls, http>>

\* A request starts in an idle client.
Start(c, kind, body, result, generates) ==
    /\ scenario.flight[c].kind = "none"
    /\ scenario.started < MaxKeyRequests
    /\ scenario' = [scenario EXCEPT
                      !.flight = [d \in KeyClients |->
                                    IF d = c
                                    THEN InFlight(kind, body, result,
                                                  \A e \in KeyClients :
                                                     scenario.flight[e].kind = "none")
                                    ELSE [scenario.flight[d] EXCEPT !.alone = FALSE]],
                      !.generated = @ + (IF generates THEN 1 ELSE 0),
                      !.started = @ + 1]
    /\ UNCHANGED keyStore
    /\ KeysFrame

\* The pair the next generateKeyPair() gives.
NextPair == KeyPair(scenario.generated + 1)

\* The endpoint POST reads the private key and, finding none, generates a pair.
EndpointLookup(c) ==
    Start(c, "endpoint", NoKeys, lookupPrivateKey(keyStore.privateKey, NextPair),
          keyStore.privateKey = "")

KeysPost(c) ==
    \E body \in KeyBodies :
        Start(c, "keysPOST", body, keysPOST(body, NextPair),
              body.privateKey = "" \/ body.publicKey = "")

KeysDelete(c) == Start(c, "keysDELETE", NoKeys, keysDELETE, FALSE)

\* settingsDb.set(PRIVATE_KEY_SETTING, ...) reaches the store.
StorePrivate(c) ==
    /\ scenario.flight[c].pendingPrivate
    /\ keyStore' = [keyStore EXCEPT !.privateKey = scenario.flight[c].keys.privateKey]
    /\ scenario' = [scenario EXCEPT !.flight[c].pendingPrivate = FALSE]
    /\ KeysFrame

\* settingsDb.set(PUBLIC_KEY_SETTING, ...) reaches the store.
StorePublic(c) ==
    /\ scenario.flight[c].pendingPublic
    /\ keyStore' = [keyStore EXCEPT !.publicKey = scenario.flight[c].keys.publicKey]
    /\ scenario' = [scenario EXCEPT !.flight[c].pendingPublic = FALSE]
    /\ KeysFrame

\* Promise.all has resolved (or there was nothing to store): the request ends.
Complete(c) ==
    /\ scenario.flight[c].kind # "none"
    /\ ~scenario.flight[c].pendingPrivate
    /\ ~scenario.flight[c].pendingPublic
    /\ scenario' = [scenario EXCEPT
                      !.flight[c] = NoKeyRequest,
                      !.answered = Append(@, [kind |-> scenario.flight[c].kind,
                                              status |-> scenario.flight[c].status])]
    /\ UNCHANGED keyStore
    /\ KeysFrame

KeyClient(c) ==
    \/ EndpointLookup(c)
    \/ KeysPost(c)
    \/ KeysDelete(c)
    \/ StorePrivate(c)
    \/ StorePublic(c)
    \/ Complete(c)

NextKeys == \E c \in KeyClients : KeyClient(c)

SpecKeys == InitKeys /\ [][NextKeys]_vars

\* ------------------------------------------ properties of the stored key pair

\* No settingsDb.set of any request is still on its way.
AllWritesDone ==
    \A c \in KeyClients : ~scenario.flight[c].pendingPrivate /\ ~scenario.flight[c].pendingPublic

\* C34: once all writes have completed, the stored private key and the stored
\* public key are the two halves of one key pair, or both are empty.
C34_AsStated ==
    AllWritesDone =>
        \/ keyStore = NoKeys
        \/ \E n \in 1..(MaxKeyRequests + 1) : keyStore = KeyPair(n)

\* What the liveness GET of the endpoint reports for the stored keys.
Liveness(keys) == GET(keys.privateKey).body.status

\* No other request has been in flight since the request of client c started.
Alone(c) == scenario.flight[c].alone

\* The last of the two writes of client c reaches the store.
LastWrite(c) ==
    \/ StorePrivate(c) /\ ~scenario.flight[c].pendingPublic
    \/ StorePublic(c) /\ ~scenario.flight[c].pendingPrivate

LoopConfigs ==
    StoredConfigs
    \cup { [kind |-> "json", value |-> [slotDurationMinutes |-> 0]],
           [kind |-> "json", value |-> [slotDurationMinutes |-> 0, minAdvanceHours |-> 0]] }

\* The slots array is kept up to this length; of a longer one only the
\* growth is lost.
MaxListed == 20

NotListing ==
    [pc |-> "idle", date |-> NoDate, periods |-> <<>>, currentMinutes |-> 0,
     workEnd |-> 0, slots |-> <<>>, response |-> <<>>, odd |-> FALSE]

\* for (const period of workPeriods): the loop variables at the head of the
\* first of the periods left, or the return when none is left
enterPeriod(loop, periods) ==
    IF periods = <<>> THEN [loop EXCEPT !.pc = "returned", !.periods = <<>>]
    ELSE [loop EXCEPT !.pc = "loop", !.periods = periods,
                      !.currentMinutes = parseTimeToMinutes(Head(periods).start),
                      !.workEnd = parseTimeToMinutes(Head(periods).end)]

\* One test of the while condition: an iteration of the body, or the exit to
\* the next period. odd is the parity of the iterations made: an iteration
\* that leaves the loop variables as they were is still a step.
whileStep(loop, config, minAllowedTime, busy) ==
    LET slotStart == fromZonedTime(loop.date, loop.currentMinutes, config.timezone)
        listed == /\ ~withinMinAdvance(slotStart, minAllowedTime)
                  /\ ~hasConflict(slotStart, slotStart + config.slotDurationMinutes, busy)
    IN  IF loop.currentMinutes + config.slotDurationMinutes <= loop.workEnd
        THEN [loop EXCEPT
                !.slots = IF listed /\ Len(@) < MaxListed THEN Append(@, slotStart) ELSE @,
                !.currentMinutes = @ + config.slotDurationMinutes,
                !.odd = ~@]
        ELSE enterPeriod(loop, Tail(loop.periods))

\* busy: the calendar's entries of the day, widened by the buffer
bufferedBusy(dateStr, config) ==
    {[startMs |-> item.start - config.slotBufferMinutes,
      endMs |-> item.end + config.slotBufferMinutes] :
        item \in listBusyTimes(CalendarItems(busyItems, events),
                               fromZonedTime(dateStr, 0, config.timezone),
                               fromZonedTime(dateStr, MinutesPerDay - 1, config.timezone))}

InitLoop ==
    /\ stored \in LoopConfigs
    /\ connected = TRUE
    /\ busyItems \in SUBSET ExternalItems
    /\ events = <<>>
    /\ now \in Clocks
    /\ req = NoRequest
    /\ resp = NoResponse
    /\ calls = <<>>
    /\ scenario = NotListing
    /\ keyStore = KeyPair(1)
    /\ http = NoHttp

LoopFrame ==
    UNCHANGED <<stored, connected, busyItems, events, now, req, resp, calls, keyStore, http>>

\* getAvailableSlots up to the loop: a day that is not a working day returns [].
BeginListing ==
    \E dateStr \in ListedDates :
        \E workingDay \in {findWorkingDay(Config.workingHours, listingDayKey(dateStr, Config))} :
            /\ scenario.pc = "idle"
            /\ scenario' =
                 IF ~workingDayEnabled(workingDay)
                 THEN [NotListing EXCEPT !.pc = "returned", !.date = dateStr]
                 ELSE enterPeriod([NotListing EXCEPT !.date = dateStr],
                                  workPeriods(workingDay[1]))
            /\ LoopFrame

Iterate ==
    /\ scenario.pc = "loop"
    /\ scenario' = whileStep(scenario, Config, now + Config.minAdvanceHours * 60,
                             bufferedBusy(scenario.date, Config))
    /\ LoopFrame

\* return slots; the list goes out with the response.
ReturnSlots ==
    /\ scenario.pc = "returned"
    /\ scenario' = [NotListing EXCEPT !.response = scenario.slots]
    /\ LoopFrame

NextLoop == BeginListing \/ Iterate \/ ReturnSlots

\* A handler that has started runs on: the loop is taken again whenever it
\* can change the state.
SpecLoop == InitLoop /\ [][NextLoop]_vars /\ WF_vars(Iterate)

\* C35: slot listing that has entered its loop returns, for every
\* configuration that config loading gives and every date.
C35_AsStated == (scenario.pc = "loop") ~> (scenario.pc = "returned")

\* -------------------------------------------------- the AI-center cache

\* const CACHE_TTL = 60000, here in seconds
CACHE_TTL == 60

SETTINGS_KEYS == {"ai_routes", "ai_fallback", "ai_prompts"}

\* Date.now() when the module is loaded, the step of the clock and its last
\* value, in seconds.
CacheStart == 1000
CacheStep == 25
CacheEnd == 1100

\* The callers whose getters may be in flight together.
CacheCallers == {1, 2}

\* let cachedRoutes = null, and a cached value with the instant it was read
\* from storage
NotCached == [set |-> FALSE, fetchedAt |-> 0]

Cached(fetchedAt) == [set |-> TRUE, fetchedAt |-> fetchedAt]

NotCalling == [pc |-> "idle", key |-> "", readAt |-> 0]

NothingReturned == [key |-> "", fetchedAt |-> 0, at |-> 0, hit |-> FALSE, afterClear |-> FALSE]

\* Date.now() - cacheTime < CACHE_TTL
isCacheValid(clock, cacheTime) == clock - cacheTime < CACHE_TTL

InitCache ==
    /\ stored = [kind |-> "absent", value |-> <<>>]
    /\ connected = TRUE
    /\ busyItems = {}
    /\ events = <<>>
    /\ now = StartNow
    /\ req = NoRequest
    /\ resp = NoResponse
    /\ calls = <<>>
    /\ scenario = [clock |-> CacheStart, cacheTime |-> 0,
                   cached |-> [key \in SETTINGS_KEYS |-> NotCached],
                   flight |-> [c \in CacheCallers |-> NotCalling],
                   cleared |-> [key \in SETTINGS_KEYS |-> FALSE],
                   returned |-> NothingReturned]
    /\ keyStore = KeyPair(1)
    /\ http = NoHttp

CacheFrame ==
    UNCHANGED <<stored, connected, busyItems, events, now, req, resp, calls, keyStore, http>>

\* A getter up to its await: the cached value when there is one and the
\* cache is valid, else the read of storage is on its way.
CallGetter(c, key) ==
    /\ scenario.flight[c] = NotCalling
    /\ scenario' =
         IF scenario.cached[key].set /\ isCacheValid(scenario.clock, scenario.cacheTime)
         THEN [scenario EXCEPT
                 !.returned = [key |-> key, fetchedAt |-> scenario.cached[key].fetchedAt,
                               at |-> scenario.clock, hit |-> TRUE,
                               afterClear |-> scenario.cleared[key]],
                 !.cleared[key] = FALSE]
         ELSE [scenario EXCEPT !.flight[c] = [pc |-> "await", key |-> key, readAt |-> 0],
                               !.cleared[key] = FALSE]
    /\ CacheFrame

\* getSettingValue: storage takes the value of the row.
StorageReads(c) ==
    /\ scenario.flight[c].pc = "await"
    /\ scenario' = [scenario EXCEPT !.flight[c].pc = "fetched",
                                    !.flight[c].readAt = scenario.clock]
    /\ CacheFrame

\* A getter from its await on: the value read is cached, cacheTime is set
\* to Date.now() and the value returned.
ResumeGetter(c) ==
    /\ scenario.flight[c].pc = "fetched"
    /\ scenario' =
         [scenario EXCEPT
            !.cached[scenario.flight[c].key] = Cached(scenario.flight[c].readAt),
            !.cacheTime = scenario.clock,
            !.flight[c] = NotCalling,
            !.returned = [key |-> scenario.flight[c].key,
                          fetchedAt |-> scenario.flight[c].readAt,
                          at |-> scenario.clock, hit |-> FALSE, afterClear |-> FALSE]]
    /\ CacheFrame

\* export function clearAiCenterCache()
ClearCache ==
    /\ scenario' = [scenario EXCEPT !.cacheTime = 0,
                                    !.cached = [key \in SETTINGS_KEYS |-> NotCached],
                                    !.cleared = [key \in SETTINGS_KEYS |-> TRUE]]
    /\ CacheFrame

ClockAdvances ==
    /\ scenario.clock + CacheStep <= CacheEnd
    /\ scenario' = [scenario EXCEPT !.clock = @ + CacheStep]
    /\ CacheFrame

CacheCaller(c) ==
    \/ \E key \in SETTINGS_KEYS : CallGetter(c, key)
    \/ StorageReads(c)
    \/ ResumeGetter(c)

NextCache ==
    \/ \E c \in CacheCallers : CacheCaller(c)
    \/ ClearCache
    \/ ClockAdvances

SpecCache == InitCache /\ [][NextCache]_vars

\* C39: a getter that returns a cached value returns one that was read from
\* storage no more than CACHE_TTL earlier, and the first call of a getter
\* after clearAiCenterCache is not answered from the cache.
C39_AsStated ==
    scenario.returned.hit =>
        /\ scenario.returned.at - scenario.returned.fetchedAt <= CACHE_TTL
        /\ ~scenario.returned.afterClear

\* ------------------------------------------------ the AI-respond debounce

\* Dispatches of one conversation; the n-th carries dispatchedAt = n.
MaxDispatches == 3

Jobs == 1..MaxDispatches

\* redis.get of a key that is not set: null
NoKey == 0

NotDispatchedYet == [pc |-> "none", lastDispatchTs |-> NoKey, superseded |-> FALSE]

InitDebounce ==
    /\ stored = [kind |-> "absent", value |-> <<>>]
    /\ connected = TRUE
    /\ busyItems = {}
    /\ events = <<>>
    /\ now = StartNow
    /\ req = NoRequest
    /\ resp = NoResponse
    /\ calls = <<>>
    /\ scenario = [redisKey |-> NoKey, dispatched |-> 0,
                   jobs |-> [j \in Jobs |-> NotDispatchedYet], sent |-> <<>>]
    /\ keyStore = KeyPair(1)
    /\ http = NoHttp

DebounceFrame ==
    UNCHANGED <<stored, connected, busyItems, events, now, req, resp, calls, keyStore, http>>

\* The webhook dispatches a job for the conversation: the key takes the
\* instant of the dispatch and the job is queued with it as dispatchedAt.
Dispatch ==
    /\ scenario.dispatched < MaxDispatches
    /\ scenario' = [scenario EXCEPT
                      !.dispatched = @ + 1,
                      !.redisKey = scenario.dispatched + 1,
                      !.jobs[scenario.dispatched + 1].pc = "queued"]
    /\ DebounceFrame

\* lastDispatchTs && lastDispatchTs > dispatchedAt
isSuperseded(lastDispatchTs, dispatchedAt) ==
    lastDispatchTs # NoKey /\ lastDispatchTs > dispatchedAt

\* A queued job is delivered, in any order: POST up to the answer of
\* redis.get(redisKey).
GetKey(j) ==
    /\ scenario.jobs[j].pc = "queued"
    /\ scenario' = [scenario EXCEPT !.jobs[j].pc = "got",
                                    !.jobs[j].lastDispatchTs = scenario.redisKey,
                                    !.jobs[j].superseded = scenario.dispatched > j]
    /\ DebounceFrame

\* The debounce check: the job answers skipped, or goes on to delete the key.
DebounceCheck(j) ==
    /\ scenario.jobs[j].pc = "got"
    /\ scenario' =
         IF isSuperseded(scenario.jobs[j].lastDispatchTs, j)
         THEN [scenario EXCEPT !.jobs[j].pc = "skipped"]
         ELSE [scenario EXCEPT !.jobs[j].pc = "deleting"]
    /\ DebounceFrame

\* await redis.del(redisKey)
DelKey(j) ==
    /\ scenario.jobs[j].pc = "deleting"
    /\ scenario' = [scenario EXCEPT !.jobs[j].pc = "processing", !.redisKey = NoKey]
    /\ DebounceFrame

\* The rest of POST: the agent processes the conversation and the answer is sent.
ProcessAndSend(j) ==
    /\ scenario.jobs[j].pc = "processing"
    /\ scenario' = [scenario EXCEPT !.jobs[j].pc = "sent", !.sent = Append(@, j)]
    /\ DebounceFrame

Job(j) == GetKey(j) \/ DebounceCheck(j) \/ DelKey(j) \/ ProcessAndSend(j)

NextDebounce == Dispatch \/ \E j \in Jobs : Job(j)

SpecDebounce == InitDebounce /\ [][NextDebounce]_vars

PastDebounce(j) == scenario.jobs[j].pc \in {"deleting", "processing", "sent"}

\* C40: a job that is older than a dispatch already made for its
\* conversation when it reads the key does not pass the debounce check, in
\* whatever order the jobs are delivered and interleaved.
C40_AsStated == \A j \in Jobs : PastDebounce(j) => ~scenario.jobs[j].superseded

====
